---- MODULE Spec2Model ----
(***************************************************************************)
(* Employee / subject / attendance GraphQL service.                        *)
(*                                                                         *)
(* Groups of state, each with its own specifications:                      *)
(*   SpecOptions, SpecPage  the pagination engine (pagination.utils.ts,    *)
(*                          schemas.ts, the employees query)               *)
(*   SpecBatch              the seven batch functions of createDataLoaders *)
(*   Spec                   requests, their contexts and the DataLoader    *)
(*                          instances createDataLoaders builds             *)
(*   SpecService            one call of a resolver (the access gate, the   *)
(*                          queries and mutations, register and the OTP    *)
(*                          mails) on any of the seeded databases          *)
(*   SpecAttendance         markAttendance called again and again          *)
(*   SpecRace               create mutations running concurrently          *)
(***************************************************************************)
EXTENDS Integers, Sequences, FiniteSets, TLC

VARIABLES
    pgArgs,     \* the raw arguments of one employees(...) call
    pgTotal,    \* what prisma.employee.count returns
    pgOpts,     \* the result of getPaginationOptions, or NotCalled
    pgPage,     \* the result of buildPaginatedResponse, or NoPage
    pgInline    \* the page metadata the employees query returns, or NoPage

pageVars == <<pgArgs, pgTotal, pgOpts, pgPage, pgInline>>

VARIABLES
    db,         \* the database behind the Prisma client, one set of rows per table
    bfKind,     \* the loader whose batch function is applied
    bfKeys,     \* the keys DataLoader hands to the batch function
    bfRows,     \* the rows findMany returned, in the order it returned them
    bfOut       \* what the batch function returned, or NotRun

batchVars == <<bfKind, bfKeys, bfRows, bfOut>>

VARIABLES
    ctx,        \* per request: the loader set of its context, 0 before createContext
    nextSet,    \* the number the next created loader set gets
    ls,         \* per loader set and loader: the DataLoader's batches, cache, calls
    nLoads,     \* load calls issued so far
    resolver    \* the loader the requests' field resolvers call

loaderVars == <<ctx, nextSet, ls, nLoads, resolver>>

VARIABLES
    now,        \* the server's clock, in minutes
    lastCall,   \* the latest resolver call that returned: operation, caller, arguments, outcome
    nCalls,     \* resolver calls made so far
    procs,      \* per concurrent mutation in progress: its arguments and how far it got
    issued,     \* every OTP stored so far: whose, the code and its expiry
    \* the employees filter
    flFilter,   \* the filter argument of an employees query
    flRows,     \* the employees the query looks through
    flOut       \* the employees it selected, or NotFiltered before the query

serviceVars == <<now, lastCall, nCalls, procs, issued>>

filterVars == <<flFilter, flRows, flOut>>

vars == <<pageVars, db, batchVars, loaderVars, serviceVars, filterVars>>

(***************************************************************************)
(* Pagination engine                                                       *)
(***************************************************************************)

\* Bounds of the enumerated inputs.
MaxSkip == 3
MaxTotal == 104
TakeOver == 2

\* Program constants.
DefaultSkip == 0
DefaultTake == 10
SkipMin == 0
TakeMin == 1
TakeMax == 100

\* A JavaScript number argument is kept as twice its value, so that a
\* non-integer (n.5) is representable and z.number().int() can reject it.
Undefined == [t |-> "undefined", n |-> 0, s |-> ""]
Null == [t |-> "null", n |-> 0, s |-> ""]
Num(twice) == [t |-> "number", n |-> twice, s |-> ""]
Int2(i) == Num(2 * i)
Str(s) == [t |-> "string", n |-> 0, s |-> s]

SortFields == {"name", "age", "class", "createdAt", "updatedAt"}
SortOrders == {"asc", "desc"}

Absent(a) == a.t \in {"undefined", "null"}

\* a ?? b
Nullish(a, b) == IF a.t \in {"undefined", "null"} THEN b ELSE a

IsInt(v) == v.t = "number" /\ v.n % 2 = 0

\* z.number().int().min(lo)[.max(hi)]: TRUE when the value passes.
SkipOk(v) == IsInt(v) /\ v.n >= 2 * SkipMin
TakeOk(v) == IsInt(v) /\ v.n >= 2 * TakeMin /\ v.n <= 2 * TakeMax
\* z.enum([...]).optional().default(d): undefined passes (and takes the default).
SortByOk(v) == v.t = "undefined" \/ (v.t = "string" /\ v.s \in SortFields)
SortOrderOk(v) == v.t = "undefined" \/ (v.t = "string" /\ v.s \in SortOrders)

\* paginationSchema.parse(input) inside validateInput: the fields with an issue.
paginationSchemaIssues(input) ==
    {f \in {"skip", "take", "sortBy", "sortOrder"} :
        \/ f = "skip" /\ ~SkipOk(input.skip)
        \/ f = "take" /\ ~TakeOk(input.take)
        \/ f = "sortBy" /\ ~SortByOk(input.sortBy)
        \/ f = "sortOrder" /\ ~SortOrderOk(input.sortOrder)}

NotCalled == [code |-> "NOT_CALLED", skip |-> 0, take |-> 0, sortBy |-> "",
              sortOrder |-> "", fields |-> {}]

\* validateInput(paginationSchema, input): the parsed object, or the
\* GraphQLError BAD_USER_INPUT carrying the failing fields.
validateInputPagination(input) ==
    LET issues == paginationSchemaIssues(input) IN
    IF issues # {}
    THEN [code |-> "BAD_USER_INPUT", skip |-> 0, take |-> 0, sortBy |-> "",
          sortOrder |-> "", fields |-> issues]
    ELSE [code |-> "OK",
          skip |-> input.skip.n \div 2,
          take |-> input.take.n \div 2,
          sortBy |-> Nullish(input.sortBy, Str("createdAt")).s,
          sortOrder |-> Nullish(input.sortOrder, Str("desc")).s,
          fields |-> {}]

\* Mutant: falsy values, 0 among them, take the default (|| for ??).
getPaginationOptionsOr(args) ==
    LET Falsy(a) == Absent(a) \/ (a.t = "number" /\ a.n = 0) \/ (a.t = "string" /\ a.s = "")
        Or(a, b) == IF Falsy(a) THEN b ELSE a IN
    validateInputPagination(
        [skip |-> Or(args.skip, Int2(DefaultSkip)),
         take |-> Or(args.take, Int2(DefaultTake)),
         sortBy |-> Or(args.sortBy, Str("createdAt")),
         sortOrder |-> Or(args.sortOrder, Str("desc"))])

\* Mutant: the default sort order is ascending.
getPaginationOptionsAsc(args) ==
    validateInputPagination(
        [skip |-> Nullish(args.skip, Int2(DefaultSkip)),
         take |-> Nullish(args.take, Int2(DefaultTake)),
         sortBy |-> Nullish(args.sortBy, Str("createdAt")),
         sortOrder |-> Nullish(args.sortOrder, Str("asc"))])

getPaginationOptions(args) ==
    validateInputPagination(
        [skip |-> Nullish(args.skip, Int2(DefaultSkip)),
         take |-> Nullish(args.take, Int2(DefaultTake)),
         sortBy |-> Nullish(args.sortBy, Str("createdAt")),
         sortOrder |-> Nullish(args.sortOrder, Str("desc"))])

\* Mutant: the last page still reports a next page (<= for <).
buildPaginatedResponseLeq(totalCount, pagination) ==
    [set |-> TRUE,
     totalCount |-> totalCount,
     hasNextPage |-> pagination.skip + pagination.take <= totalCount,
     hasPreviousPage |-> pagination.skip > 0]

NoPage == [set |-> FALSE, totalCount |-> 0, hasNextPage |-> FALSE,
           hasPreviousPage |-> FALSE]

buildPaginatedResponse(totalCount, pagination) ==
    [set |-> TRUE,
     totalCount |-> totalCount,
     hasNextPage |-> pagination.skip + pagination.take < totalCount,
     hasPreviousPage |-> pagination.skip > 0]

\* The object the employees query returns (its employees list left out).
employeesPage(totalCount, pagination) ==
    [set |-> TRUE,
     totalCount |-> totalCount,
     hasNextPage |-> pagination.skip + pagination.take < totalCount,
     hasPreviousPage |-> pagination.skip > 0]

\* Enumerated raw arguments.
SkipArgs == {Undefined, Null, Num(1)} \cup {Int2(i) : i \in -1..MaxSkip}
TakeArgs == {Undefined, Null, Num(3), Num(201)}
                \cup {Int2(i) : i \in -1..(TakeMax + TakeOver)}
SortByArgs == {Undefined, Null, Str(""), Str("id"), Str("Name")}
                \cup {Str(f) : f \in SortFields}
SortOrderArgs == {Undefined, Null, Str(""), Str("ASC")}
                \cup {Str(o) : o \in SortOrders}

AllArgs == [skip : SkipArgs, take : TakeArgs, sortBy : SortByArgs,
            sortOrder : SortOrderArgs]

\* Arguments of a valid page request with the default sort.
PageArgs == [skip : {Int2(i) : i \in 0..MaxSkip},
             take : {Int2(i) : i \in TakeMin..TakeMax},
             sortBy : {Undefined}, sortOrder : {Undefined}]

InitOptions ==
    /\ pgArgs \in AllArgs
    /\ pgTotal = 0
    /\ pgOpts = NotCalled
    /\ pgPage = NoPage
    /\ pgInline = NoPage

InitPage ==
    /\ pgArgs \in PageArgs
    /\ pgTotal \in 0..MaxTotal
    /\ pgOpts = NotCalled
    /\ pgPage = NoPage
    /\ pgInline = NoPage

GetPaginationOptions ==
    /\ pgOpts = NotCalled
    /\ pgOpts' = getPaginationOptions(pgArgs)
    /\ UNCHANGED <<pgArgs, pgTotal, pgPage, pgInline, db, batchVars, loaderVars, serviceVars, filterVars>>

BuildPaginatedResponse ==
    /\ pgOpts.code = "OK"
    /\ ~pgPage.set
    /\ pgPage' = buildPaginatedResponse(pgTotal, pgOpts)
    /\ UNCHANGED <<pgArgs, pgTotal, pgOpts, pgInline, db, batchVars, loaderVars, serviceVars, filterVars>>

EmployeesPage ==
    /\ pgOpts.code = "OK"
    /\ ~pgInline.set
    /\ pgInline' = employeesPage(pgTotal, pgOpts)
    /\ UNCHANGED <<pgArgs, pgTotal, pgOpts, pgPage, db, batchVars, loaderVars, serviceVars, filterVars>>

NextOptions == GetPaginationOptions

NextPage ==
    \/ GetPaginationOptions
    \/ BuildPaginatedResponse
    \/ EmployeesPage

(***************************************************************************)
(* Persistence gateway and the batch functions of createDataLoaders        *)
(***************************************************************************)

\* Bounds of the enumerated database and key lists.
MaxId == 2
MaxRows == 3
MaxDate == 2
MaxBatch == 2

Ids == 1..MaxId
Dates == 1..MaxDate

Range(f) == {f[i] : i \in DOMAIN f}
SetMax(S) == CHOOSE m \in S : \A x \in S : x <= m

\* Every order in which the rows of S can come back.
Orderings(S) == {f \in [1..Cardinality(S) -> S] : Range(f) = S}

LoaderNames == {"userLoader", "employeeLoader", "employeeByUserIdLoader",
                "subjectLoader", "subjectsByEmployeeIdLoader",
                "employeesBySubjectIdLoader", "attendanceByEmployeeIdLoader"}

\* Rows, with the columns the loaders read.
UserRow(i) == [id |-> i]
SubjectRow(i) == [id |-> i]
EmployeeRow(i, u) == [id |-> i, userId |-> u]
EmployeeSubjectRow(e, sj) == [employeeId |-> e, subjectId |-> sj]
AttendanceRow(e, d) == [employeeId |-> e, date |-> d]

EmptyDb == [user |-> {}, employee |-> {}, subject |-> {}, employeeSubject |-> {},
            attendance |-> {}]

\* The unique indexes and foreign keys of the schema.
DbConstraints(database) ==
    /\ \A a, b \in database.employee :
        (a.id = b.id \/ a.userId = b.userId) => a = b
    /\ \A e \in database.employee : UserRow(e.userId) \in database.user
    /\ \A es \in database.employeeSubject :
        /\ \E e \in database.employee : e.id = es.employeeId
        /\ SubjectRow(es.subjectId) \in database.subject
    /\ \A a \in database.attendance : \E e \in database.employee : e.id = a.employeeId

\* include: { subject: true } / include: { employee: true }
IncludeSubject(database, es) ==
    [employeeId |-> es.employeeId, subjectId |-> es.subjectId,
     subject |-> CHOOSE sj \in database.subject : sj.id = es.subjectId]
IncludeEmployee(database, es) ==
    [employeeId |-> es.employeeId, subjectId |-> es.subjectId,
     employee |-> CHOOSE e \in database.employee : e.id = es.employeeId]

\* prisma.<table>.findMany({ where: { <field>: { in: keys } } }): the matching rows.
Matching(table, field, keys) == {r \in table : r[field] \in Range(keys)}

\* orderBy: { date: 'desc' }
DateDesc(rows) == \A i, j \in DOMAIN rows : i < j => rows[i].date >= rows[j].date

\* The responses findMany can give to the query of each loader: the matching
\* rows in any order, in descending date order where the query asks for it.
FindMany(kind, database, keys) ==
    CASE kind = "userLoader" -> Orderings(Matching(database.user, "id", keys))
      [] kind = "employeeLoader" -> Orderings(Matching(database.employee, "id", keys))
      [] kind = "employeeByUserIdLoader" ->
            Orderings(Matching(database.employee, "userId", keys))
      [] kind = "subjectLoader" -> Orderings(Matching(database.subject, "id", keys))
      [] kind = "subjectsByEmployeeIdLoader" ->
            Orderings({IncludeSubject(database, es) :
                es \in Matching(database.employeeSubject, "employeeId", keys)})
      [] kind = "employeesBySubjectIdLoader" ->
            Orderings({IncludeEmployee(database, es) :
                es \in Matching(database.employeeSubject, "subjectId", keys)})
      [] kind = "attendanceByEmployeeIdLoader" ->
            {rows \in Orderings(Matching(database.attendance, "employeeId", keys)) :
                DateDesc(rows)}

\* The values a loader resolves a key to.
NullValue == [kind |-> "null", row |-> <<>>, list |-> <<>>]
RowValue(r) == [kind |-> "row", row |-> r, list |-> <<>>]
ListValue(l) == [kind |-> "list", row |-> <<>>, list |-> l]

\* new Map(rows.map((r) => [r[field], r])).get(id) || null
MapGetOrNull(rows, field, id) ==
    LET at == {i \in DOMAIN rows : rows[i][field] = id} IN
    IF at = {} THEN NullValue ELSE RowValue(rows[SetMax(at)])

\* map.get(k) || []
GetOrEmpty(map, k) == IF k \in DOMAIN map THEN map[k] ELSE <<>>

\* rows.forEach((r) => { const l = map.get(r[field]) || []; l.push(r[item]);
\*                       map.set(r[field], l); })
RECURSIVE PushAll(_, _, _, _)
PushAll(map, rows, field, item) ==
    IF rows = <<>> THEN map
    ELSE LET r == Head(rows)
             k == r[field]
             l == Append(GetOrEmpty(map, k), IF item = "" THEN r ELSE r[item])
         IN PushAll([x \in DOMAIN map \cup {k} |-> IF x = k THEN l ELSE map[x]],
                    Tail(rows), field, item)

\* keys.forEach((id) => map.set(id, []))
EmptyLists(keys) == [k \in Range(keys) |-> <<>>]

\* Mutant: the rows are returned in the order the database gave them.
userLoaderInResponseOrder(keys, rows) ==
    [i \in DOMAIN keys |-> IF i <= Len(rows) THEN RowValue(rows[i]) ELSE NullValue]

userLoader(keys, rows) ==
    [i \in DOMAIN keys |-> MapGetOrNull(rows, "id", keys[i])]

employeeLoader(keys, rows) ==
    [i \in DOMAIN keys |-> MapGetOrNull(rows, "id", keys[i])]

employeeByUserIdLoader(keys, rows) ==
    [i \in DOMAIN keys |-> MapGetOrNull(rows, "userId", keys[i])]

subjectLoader(keys, rows) ==
    [i \in DOMAIN keys |-> MapGetOrNull(rows, "id", keys[i])]

subjectsByEmployeeIdLoader(keys, rows) ==
    LET subjectsMap == PushAll(EmptyLists(keys), rows, "employeeId", "subject") IN
    [i \in DOMAIN keys |-> ListValue(GetOrEmpty(subjectsMap, keys[i]))]

employeesBySubjectIdLoader(keys, rows) ==
    LET employeesMap == PushAll(EmptyLists(keys), rows, "subjectId", "employee") IN
    [i \in DOMAIN keys |-> ListValue(GetOrEmpty(employeesMap, keys[i]))]

\* Mutant: no list is prepared for the keys, a key without rows gets null.
attendanceByEmployeeIdLoaderNoInit(keys, rows) ==
    LET attendanceMap == PushAll(<<>>, rows, "employeeId", "") IN
    [i \in DOMAIN keys |->
        IF keys[i] \in DOMAIN attendanceMap THEN ListValue(attendanceMap[keys[i]])
        ELSE NullValue]

attendanceByEmployeeIdLoader(keys, rows) ==
    LET attendanceMap == PushAll(EmptyLists(keys), rows, "employeeId", "") IN
    [i \in DOMAIN keys |-> ListValue(GetOrEmpty(attendanceMap, keys[i]))]

\* The batch function of a loader, after its findMany has returned rows.
BatchFn(kind, keys, rows) ==
    CASE kind = "userLoader" -> userLoader(keys, rows)
      [] kind = "employeeLoader" -> employeeLoader(keys, rows)
      [] kind = "employeeByUserIdLoader" -> employeeByUserIdLoader(keys, rows)
      [] kind = "subjectLoader" -> subjectLoader(keys, rows)
      [] kind = "subjectsByEmployeeIdLoader" -> subjectsByEmployeeIdLoader(keys, rows)
      [] kind = "employeesBySubjectIdLoader" -> employeesBySubjectIdLoader(keys, rows)
      [] kind = "attendanceByEmployeeIdLoader" ->
            attendanceByEmployeeIdLoader(keys, rows)

\* DataLoader hands over a non-empty list of keys, none twice.
KeyLists ==
    {ks \in UNION {[1..n -> Ids] : n \in 1..MaxBatch} :
        \A i, j \in DOMAIN ks : i # j => ks[i] # ks[j]}

SmallSubsets(S) == {T \in SUBSET S : Cardinality(T) <= MaxRows}

AllUsers == {UserRow(i) : i \in Ids}
AllSubjects == {SubjectRow(i) : i \in Ids}
OwnEmployees == {EmployeeRow(i, i) : i \in Ids}

\* The databases a batch function is applied to: the table its query reads
\* ranges over the bounded sets of rows, the tables it references are full.
BatchDbs(kind) ==
    CASE kind = "userLoader" ->
            {[EmptyDb EXCEPT !.user = t] : t \in SUBSET AllUsers}
      [] kind \in {"employeeLoader", "employeeByUserIdLoader"} ->
            {[EmptyDb EXCEPT !.user = AllUsers, !.employee = t] :
                t \in SmallSubsets({EmployeeRow(i, u) : i \in Ids, u \in Ids})}
      [] kind = "subjectLoader" ->
            {[EmptyDb EXCEPT !.subject = t] : t \in SUBSET AllSubjects}
      [] kind \in {"subjectsByEmployeeIdLoader", "employeesBySubjectIdLoader"} ->
            {[EmptyDb EXCEPT !.user = AllUsers, !.employee = OwnEmployees,
                             !.subject = AllSubjects, !.employeeSubject = t] :
                t \in SmallSubsets({EmployeeSubjectRow(e, sj) : e \in Ids, sj \in Ids})}
      [] kind = "attendanceByEmployeeIdLoader" ->
            {[EmptyDb EXCEPT !.user = AllUsers, !.employee = OwnEmployees,
                             !.attendance = t] :
                t \in SmallSubsets({AttendanceRow(e, d) : e \in Ids, d \in Dates})}

NotRun == <<[kind |-> "not run", row |-> <<>>, list |-> <<>>]>>

InitBatch ==
    /\ bfKind \in LoaderNames
    /\ bfKeys \in KeyLists
    /\ db \in {d \in BatchDbs(bfKind) : DbConstraints(d)}
    /\ bfRows = <<>>
    /\ bfOut = NotRun

\* One call of the batch function: the query, then the mapping to the keys.
RunBatch ==
    /\ bfOut = NotRun
    /\ \E rows \in FindMany(bfKind, db, bfKeys) :
        /\ bfRows' = rows
        /\ bfOut' = BatchFn(bfKind, bfKeys, rows)
    /\ UNCHANGED <<db, bfKind, bfKeys, pageVars, loaderVars, serviceVars, filterVars>>

NextBatch == RunBatch

PageIdle ==
    /\ pgArgs = [skip |-> Undefined, take |-> Undefined, sortBy |-> Undefined,
                 sortOrder |-> Undefined]
    /\ pgTotal = 0
    /\ pgOpts = NotCalled
    /\ pgPage = NoPage
    /\ pgInline = NoPage

BatchIdle ==
    /\ bfKind = "userLoader"
    /\ bfKeys = <<>>
    /\ bfRows = <<>>
    /\ bfOut = NotRun

(***************************************************************************)
(* Requests, contexts and DataLoader instances                             *)
(***************************************************************************)

\* Bounds: concurrent requests, and load calls over all of them.
MaxReqs == 2
MaxLoads == 2

Reqs == 1..MaxReqs
SetIds == 1..MaxReqs

\* The database the requests read.
SeedDb ==
    [user |-> AllUsers,
     employee |-> {EmployeeRow(1, 1)},
     subject |-> {SubjectRow(1)},
     employeeSubject |-> {EmployeeSubjectRow(1, 1)},
     attendance |-> {AttendanceRow(1, d) : d \in Dates}]

\* A promise handed to a caller of load.
Pending(r) == [st |-> "pending", val |-> NullValue, by |-> r]
DbError == [kind |-> "error", row |-> <<>>, list |-> <<>>]

\* A DataLoader batch: the keys to fetch, one callback per key, the callers
\* served from the cache, and how far the batch has come.
NewBatch == [keys |-> <<>>, callbacks |-> <<>>, cacheHits |-> <<>>, state |-> "open"]
HasDispatched(batch) == batch.state # "open"

\* new DataLoader(batchFn): no batch, an empty cache; calls logs the findMany
\* calls the batch function has made.
NewLoader == [batches |-> <<>>, cache |-> <<>>, calls |-> <<>>]

\* createDataLoaders(prisma): seven new loaders.
createDataLoaders == [l \in LoaderNames |-> NewLoader]

\* Mutant: one loader set, created once, serves every request.
createContextShared(next) == 1

\* createContext(user): the context's loaders are a loader set of its own.
createContext(next) == next

\* Mutant: a batch takes keys for as long as it exists.
getCurrentBatchAny(loader) ==
    IF loader.batches # <<>> THEN Len(loader.batches) ELSE 0

\* The batch a load call joins: the loader's latest one unless it has been
\* dispatched; 0 when a new batch has to be opened.
getCurrentBatch(loader) ==
    IF loader.batches # <<>> /\ ~HasDispatched(loader.batches[Len(loader.batches)])
    THEN Len(loader.batches) ELSE 0

WithCurrentBatch(loader) ==
    IF getCurrentBatch(loader) = 0
    THEN [loader EXCEPT !.batches = Append(@, NewBatch)]
    ELSE loader

\* Mutant: the cache is not consulted, every call adds its key to the batch.
loadUncached(loader, k, r) ==
    LET ld == WithCurrentBatch(loader)
        b == IF getCurrentBatch(loader) = 0 THEN Len(ld.batches)
             ELSE getCurrentBatch(loader)
    IN [ld EXCEPT !.batches[b].keys = Append(@, k),
                  !.batches[b].callbacks = Append(@, Pending(r)),
                  !.cache = [x \in DOMAIN ld.cache \cup {k} |->
                                IF x = k THEN <<b, Len(ld.batches[b].keys) + 1>>
                                ELSE ld.cache[x]]]

\* loader.load(k) called by request r.
load(loader, k, r) ==
    LET ld == WithCurrentBatch(loader)
        b == IF getCurrentBatch(loader) = 0 THEN Len(ld.batches)
             ELSE getCurrentBatch(loader)
    IN IF k \in DOMAIN ld.cache
       THEN [ld EXCEPT !.batches[b].cacheHits =
                        Append(@, [key |-> k, to |-> ld.cache[k], by |-> r])]
       ELSE [ld EXCEPT !.batches[b].keys = Append(@, k),
                       !.batches[b].callbacks = Append(@, Pending(r)),
                       !.cache = [x \in DOMAIN ld.cache \cup {k} |->
                                    IF x = k THEN <<b, Len(ld.batches[b].keys) + 1>>
                                    ELSE ld.cache[x]]]

\* Mutant: one findMany per key of the batch.
dispatchBatchPerKey(loader, b) ==
    [loader EXCEPT
        !.batches[b].state = IF loader.batches[b].keys = <<>> THEN "ok" ELSE "inflight",
        !.calls = @ \o [i \in DOMAIN loader.batches[b].keys |->
                            [batch |-> b, keys |-> <<loader.batches[b].keys[i]>>]]]

\* dispatchBatch: the batch is closed; with no key to fetch only its cache
\* hits are resolved, otherwise the batch function is called with the keys.
dispatchBatch(loader, b) ==
    IF loader.batches[b].keys = <<>>
    THEN [loader EXCEPT !.batches[b].state = "ok"]
    ELSE [loader EXCEPT !.batches[b].state = "inflight",
                        !.calls = Append(@, [batch |-> b,
                                             keys |-> loader.batches[b].keys])]

\* The batch function returned values: callback i is resolved with value i.
resolveBatch(loader, b, values) ==
    [loader EXCEPT
        !.batches[b].state = "ok",
        !.batches[b].callbacks =
            [i \in DOMAIN @ |-> [@[i] EXCEPT !.st = "fulfilled", !.val = values[i]]]]

\* Mutant: only the first caller of the failed batch is told.
failedDispatchFirstOnly(loader, b, error) ==
    [loader EXCEPT
        !.batches[b].state = "failed",
        !.batches[b].callbacks =
            [i \in DOMAIN @ |-> IF i = 1 THEN [@[i] EXCEPT !.st = "rejected", !.val = error]
                                ELSE [@[i] EXCEPT !.st = "fulfilled"]],
        !.cache = [x \in DOMAIN @ \ Range(loader.batches[b].keys) |-> @[x]]]

\* failedDispatch: every key of the batch is cleared from the cache and every
\* callback is rejected with the error.
failedDispatch(loader, b, error) ==
    [loader EXCEPT
        !.batches[b].state = "failed",
        !.batches[b].callbacks =
            [i \in DOMAIN @ |-> [@[i] EXCEPT !.st = "rejected", !.val = error]],
        !.cache = [x \in DOMAIN @ \ Range(loader.batches[b].keys) |-> @[x]]]

\* The loaders of a set share no state: each is a DataLoader of its own, with
\* its own batch and cache. A behaviour follows the loads on one of the seven.
InitLoaders ==
    /\ ctx = [r \in Reqs |-> 0]
    /\ nextSet = 1
    /\ ls = [s \in SetIds |-> createDataLoaders]
    /\ nLoads = 0
    /\ resolver \in LoaderNames

\* The next request arrives (requests are numbered in their order of
\* arrival): the server builds its context.
StartRequest(r) ==
    /\ ctx[r] = 0
    /\ r = nextSet
    /\ ctx' = [ctx EXCEPT ![r] = createContext(nextSet)]
    /\ nextSet' = nextSet + 1
    /\ UNCHANGED <<ls, nLoads, resolver, pageVars, db, batchVars, serviceVars, filterVars>>

\* A field resolver of request r calls ctx.loaders.<l>.load(k).
Load(r, l, k) ==
    /\ ctx[r] # 0
    /\ l = resolver
    /\ nLoads < MaxLoads
    /\ ls' = [ls EXCEPT ![ctx[r]][l] = load(@, k, r)]
    /\ nLoads' = nLoads + 1
    /\ UNCHANGED <<ctx, nextSet, resolver, pageVars, db, batchVars, serviceVars, filterVars>>

\* The scheduler yields: the loader's open batch is dispatched.
Dispatch(s, l) ==
    /\ getCurrentBatch(ls[s][l]) # 0
    /\ ls' = [ls EXCEPT ![s][l] = dispatchBatch(@, getCurrentBatch(ls[s][l]))]
    /\ UNCHANGED <<ctx, nextSet, nLoads, resolver, pageVars, db, batchVars, serviceVars, filterVars>>

\* findMany answers: the batch function maps the rows to the keys and the
\* callbacks are resolved.
CompleteOk(s, l, b) ==
    /\ b \in DOMAIN ls[s][l].batches
    /\ ls[s][l].batches[b].state = "inflight"
    /\ \E rows \in FindMany(l, db, ls[s][l].batches[b].keys) :
        ls' = [ls EXCEPT ![s][l] =
                resolveBatch(@, b, BatchFn(l, ls[s][l].batches[b].keys, rows))]
    /\ UNCHANGED <<ctx, nextSet, nLoads, resolver, pageVars, db, batchVars, serviceVars, filterVars>>

\* findMany fails: the batch function rejects.
CompleteFail(s, l, b) ==
    /\ b \in DOMAIN ls[s][l].batches
    /\ ls[s][l].batches[b].state = "inflight"
    /\ ls' = [ls EXCEPT ![s][l] = failedDispatch(@, b, DbError)]
    /\ UNCHANGED <<ctx, nextSet, nLoads, resolver, pageVars, db, batchVars, serviceVars, filterVars>>

Next ==
    \/ \E r \in Reqs : StartRequest(r)
    \/ \E r \in Reqs, k \in Ids : Load(r, resolver, k)
    \/ \E s \in SetIds : Dispatch(s, resolver)
    \/ \E s \in SetIds, b \in 1..MaxLoads : CompleteOk(s, resolver, b)
    \/ \E s \in SetIds, b \in 1..MaxLoads : CompleteFail(s, resolver, b)

LoadersIdle ==
    /\ ctx = [r \in Reqs |-> 0]
    /\ nextSet = 1
    /\ ls = [s \in SetIds |-> createDataLoaders]
    /\ nLoads = 0
    /\ resolver = "userLoader"

(***************************************************************************)
(* The service: accounts, the access gate and the resolvers                *)
(***************************************************************************)

\* Bounds: markAttendance calls in a row, calendar days and minutes of a day
\* that date arguments name.
MaxMarks == 2
MaxDay == 2
MaxMinute == 1

\* A Date counts minutes; a calendar day has this many.
MinutesPerDay == 1440

\* getOTPExpiry: ten minutes from now.
OtpTtlMinutes == 10

Roles == {"ADMIN", "EMPLOYEE"}

\* What generateOTP can return (six digits drawn at random).
OtpCodes == {"111111", "222222"}

\* null in the otp and otpExpires columns.
NoOtp == "null"
NoExpiry == -1

\* Passwords a client types, and bcrypt: hash turns a password into a hash
\* that compare accepts for that password alone.
Passwords == {"Secret12", "Wrong123"}
hash(password) == [bcrypt |-> password]
compare(password, passwordHash) == passwordHash = hash(password)

\* An email address as a client types it: a mailbox, written in lower case
\* or with capitals, bare or with spaces around it.
EmailNames == {"a", "b", "c"}
Email(name, upper, padded) == [name |-> name, upper |-> upper, padded |-> padded]
EmailArgs == {Email(n, u, p) : n \in EmailNames, u \in BOOLEAN, p \in BOOLEAN}

\* email.toLowerCase().trim()
toLowerCaseTrim(email) == Email(email.name, FALSE, FALSE)

\* z.string().email(): the pattern admits no space.
IsEmail(email) == ~email.padded

\* Rows of the tables, with the columns the resolvers read or write.
Account(id, email, passwordHash, role, otpVerified, otp, otpExpires) ==
    [id |-> id, email |-> email, passwordHash |-> passwordHash, role |-> role,
     otpVerified |-> otpVerified, otp |-> otp, otpExpires |-> otpExpires]
Profile(id, userId, name) == [id |-> id, userId |-> userId, name |-> name]
Subject(id, name) == [id |-> id, name |-> name]
Link(employeeId, subjectId) == [employeeId |-> employeeId, subjectId |-> subjectId]
Mark(employeeId, date, status) == [employeeId |-> employeeId, date |-> date, status |-> status]

\* ctx.user: null, or the payload of a valid token.
NoUser == [id |-> 0, role |-> "none"]
UserPayload(id, role) == [id |-> id, role |-> role]

\* An id argument: a UUID (numbered here), or a string that is no UUID.
BadId == 0
IdArgs == Ids \cup {BadId}

\* validateId / z.string().uuid()
validateId(id) == id # BadId

\* What a resolver call comes to: the database it leaves, the error code (or
\* OK; PASS while the gate lets the call go on), the kind of message, the
\* email in the error's extensions, what became of the OTP mail, the writes
\* it made in their order, and the rows it returns.
NoEmail == Email("", FALSE, FALSE)

\* token: null in a response, or what jwt.sign puts into a token.
NoToken == [userId |-> 0, role |-> "none"]
sign(userId, role) == [userId |-> userId, role |-> role]

Outcome(database, code, msg) ==
    [db |-> database, code |-> code, msg |-> msg, email |-> NoEmail, mail |-> "none",
     writes |-> <<>>, data |-> {}, token |-> NoToken, success |-> FALSE,
     requiresOTPVerification |-> FALSE]
Throw(out, code, msg) == [out EXCEPT !.code = code, !.msg = msg]
Return(out, rows) ==
    [out EXCEPT !.code = "OK", !.msg = "", !.data = rows, !.success = TRUE]
Wrote(out, database, write) ==
    [out EXCEPT !.db = database, !.writes = Append(@, write)]

\* What the caller's environment decides during one call: the token, the
\* code generateOTP draws and whether transporter.sendMail succeeds.
Env(user, otp, mailOk) == [user |-> user, otp |-> otp, mailOk |-> mailOk]

\* prisma.user.update({ where, data: { otp, otpExpires } })
SetOtp(database, id, otp, otpExpires) ==
    [database EXCEPT !.user =
        {IF u.id = id THEN [u EXCEPT !.otp = otp, !.otpExpires = otpExpires] ELSE u : u \in @}]

\* getOTPExpiry
getOTPExpiry(t) == t + OtpTtlMinutes

\* sendOTPEmail inside try / catch: a failure is logged and dropped.
TrySendOTPEmail(out, env) ==
    [out EXCEPT !.mail = IF env.mailOk THEN "sent" ELSE "failed"]

\* Mutant: the gate reports an unverified user without storing a new OTP.
requireAuthAndVerifiedNoUpdate(database, t, env) ==
    IF env.user = NoUser THEN Outcome(database, "UNAUTHENTICATED", "Not authenticated")
    ELSE LET found == {u \in database.user : u.id = env.user.id} IN
         IF found = {} THEN Outcome(database, "NOT_FOUND", "User not found")
         ELSE LET dbUser == CHOOSE u \in found : TRUE IN
              IF ~dbUser.otpVerified
              THEN [Outcome(database, "OTP_REQUIRED", "Email not verified")
                        EXCEPT !.email = dbUser.email]
              ELSE Outcome(database, "PASS", "")

requireAuthAndVerified(database, t, env) ==
    IF env.user = NoUser THEN Outcome(database, "UNAUTHENTICATED", "Not authenticated")
    ELSE LET found == {u \in database.user : u.id = env.user.id} IN
         IF found = {} THEN Outcome(database, "NOT_FOUND", "User not found")
         ELSE LET dbUser == CHOOSE u \in found : TRUE IN
              IF ~dbUser.otpVerified
              THEN LET stored == Wrote(Outcome(database, "PASS", ""),
                                       SetOtp(database, env.user.id, env.otp, getOTPExpiry(t)),
                                       "user.update")
                       mailed == TrySendOTPEmail(stored, env)
                   IN [Throw(mailed, "OTP_REQUIRED", "Email not verified")
                            EXCEPT !.email = dbUser.email]
              ELSE Outcome(database, "PASS", "")

\* Mutant: the role is checked before the verification.
requireAdminRoleFirst(database, t, env) ==
    IF env.user # NoUser /\ env.user.role # "ADMIN"
    THEN Outcome(database, "FORBIDDEN", "Admin access required")
    ELSE requireAuthAndVerified(database, t, env)

requireAdmin(database, t, env) ==
    LET gate == requireAuthAndVerified(database, t, env) IN
    IF gate.code # "PASS" THEN gate
    ELSE IF env.user.role # "ADMIN" THEN Throw(gate, "FORBIDDEN", "Admin access required")
    ELSE gate

\* A date argument: left out, a string Date.parse cannot read, or a string
\* that names a minute (a date-only string names the first minute of its day).
NoDate == [kind |-> "absent", t |-> 0]
BadDate == [kind |-> "invalid", t |-> 0]
DateString(t) == [kind |-> "date", t |-> t]
Days == 0..MaxDay
MinutesOfDay == 0..MaxMinute
DateStrings == {DateString(d * MinutesPerDay + m) : d \in Days, m \in MinutesOfDay}
CalendarDay(t) == t \div MinutesPerDay

\* !isNaN(Date.parse(val))
IsDate(date) == date.kind = "date"

\* A name argument: one the name pattern admits, or one it rejects.
BadName == "x"
NameArgs == {"Al", "Bo", BadName}
IsName(name) == name # BadName

\* The id the database gives a new row: one no row of the table has. It is
\* BadId when the ids of the model are used up.
NewId(table) ==
    LET free == Ids \ {r.id : r \in table} IN
    IF free = {} THEN BadId ELSE CHOOSE i \in free : \A j \in free : i <= j

\* employeeResolvers.Query.employee
employee(database, t, env, id) ==
    LET gate == requireAuthAndVerified(database, t, env)
        found == {e \in database.employee : e.id = id}
    IN
    IF gate.code # "PASS" THEN gate
    ELSE IF ~validateId(id) THEN Throw(gate, "BAD_USER_INPUT", "Invalid employee ID format")
    ELSE IF found = {} THEN Throw(gate, "NOT_FOUND", "Employee not found")
    ELSE IF env.user.role # "ADMIN" /\ (CHOOSE e \in found : TRUE).userId # env.user.id
         THEN Throw(gate, "FORBIDDEN", "Access denied")
    ELSE Return(gate, found)

\* attendanceQuerySchema
attendanceQueryOk(employeeId, startDate, endDate) ==
    /\ validateId(employeeId)
    /\ startDate.kind # "invalid"
    /\ endDate.kind # "invalid"

\* The where clause of attendanceByEmployee.
InDateRange(a, startDate, endDate) ==
    /\ IsDate(startDate) => a.date >= startDate.t
    /\ IsDate(endDate) => a.date <= endDate.t

\* Mutant: the ownership test is left out.
attendanceByEmployeeNoOwner(database, t, env, employeeId, startDate, endDate) ==
    LET gate == requireAuthAndVerified(database, t, env) IN
    IF gate.code # "PASS" THEN gate
    ELSE IF ~attendanceQueryOk(employeeId, startDate, endDate)
         THEN Throw(gate, "BAD_USER_INPUT", "Validation error")
    ELSE Return(gate, {a \in database.attendance :
                        a.employeeId = employeeId /\ InDateRange(a, startDate, endDate)})

\* employeeResolvers.Query.attendanceByEmployee
attendanceByEmployee(database, t, env, employeeId, startDate, endDate) ==
    LET gate == requireAuthAndVerified(database, t, env)
        found == {e \in database.employee : e.id = employeeId}
    IN
    IF gate.code # "PASS" THEN gate
    ELSE IF ~attendanceQueryOk(employeeId, startDate, endDate)
         THEN Throw(gate, "BAD_USER_INPUT", "Validation error")
    ELSE IF env.user.role # "ADMIN" /\ found = {}
         THEN Throw(gate, "NOT_FOUND", "Employee not found")
    ELSE IF env.user.role # "ADMIN" /\ (CHOOSE e \in found : TRUE).userId # env.user.id
         THEN Throw(gate, "FORBIDDEN", "Access denied")
    ELSE Return(gate, {a \in database.attendance :
                        a.employeeId = employeeId /\ InDateRange(a, startDate, endDate)})

\* employeeResolvers.Query.myProfile
myProfile(database, t, env) ==
    LET gate == requireAuthAndVerified(database, t, env) IN
    IF gate.code # "PASS" THEN gate
    ELSE Return(gate, {e \in database.employee : e.userId = env.user.id})

\* employeeResolvers.Mutation.updateMyName
\* Mutant: any verified caller without a profile gets one created.
updateMyNameAnyRole(database, t, env, name) ==
    LET gate == requireAuthAndVerified(database, t, env)
        found == {e \in database.employee : e.userId = env.user.id}
        created == Profile(NewId(database.employee), env.user.id, name)
    IN
    IF gate.code # "PASS" THEN gate
    ELSE IF ~IsName(name) THEN Throw(gate, "BAD_USER_INPUT", "Validation error")
    ELSE IF found # {}
         THEN Return(Wrote(gate,
                           [database EXCEPT !.employee =
                               {IF e \in found THEN [e EXCEPT !.name = name] ELSE e : e \in @}],
                           "employee.update"),
                     {[e EXCEPT !.name = name] : e \in found})
    ELSE Return(Wrote(gate, [database EXCEPT !.employee = @ \cup {created}],
                      "employee.create"),
                {created})

updateMyName(database, t, env, name) ==
    LET gate == requireAuthAndVerified(database, t, env)
        found == {e \in database.employee : e.userId = env.user.id}
    IN
    IF gate.code # "PASS" THEN gate
    ELSE IF ~IsName(name) THEN Throw(gate, "BAD_USER_INPUT", "Validation error")
    ELSE IF found # {}
         THEN LET updated == {IF e \in found THEN [e EXCEPT !.name = name] ELSE e :
                                e \in database.employee}
              IN Return(Wrote(gate, [database EXCEPT !.employee = updated], "employee.update"),
                        {[e EXCEPT !.name = name] : e \in found})
    ELSE IF env.user.role = "ADMIN"
         THEN LET created == Profile(NewId(database.employee), env.user.id, name) IN
              Return(Wrote(gate, [database EXCEPT !.employee = @ \cup {created}],
                           "employee.create"),
                     {created})
    ELSE Throw(gate, "NOT_FOUND", "Employee profile not found")

\* A subjectIds argument: an array of id strings; the empty array also
\* stands for an argument left out (both fail the ?.length test).
SubjectIdLists ==
    {<<>>} \cup {<<i>> : i \in IdArgs} \cup {<<i, j>> : i \in Ids, j \in Ids}

\* A subject name argument: two names of valid length, one too short.
SubjectNames == {"Math", "Art", BadName}

\* An optional name left out of updateEmployee's input.
NoName == ""

\* The employees an admin lists: those of verified users of role EMPLOYEE.
ListedEmployees(database) ==
    {e \in database.employee :
        \E u \in database.user : u.id = e.userId /\ u.role = "EMPLOYEE" /\ u.otpVerified}

\* adminResolvers.Query.employees; argsOk says whether the filter and the
\* pagination arguments pass their schemas.
employees(database, t, env, argsOk) ==
    LET gate == requireAdmin(database, t, env) IN
    IF gate.code # "PASS" THEN gate
    ELSE IF ~argsOk THEN Throw(gate, "BAD_USER_INPUT", "Validation error")
    ELSE Return(gate, ListedEmployees(database))

\* adminResolvers.Query.subjects
subjects(database, t, env) ==
    LET gate == requireAdmin(database, t, env) IN
    IF gate.code # "PASS" THEN gate ELSE Return(gate, database.subject)

\* adminResolvers.Query.subject
subject(database, t, env, id) ==
    LET gate == requireAdmin(database, t, env) IN
    IF gate.code # "PASS" THEN gate
    ELSE IF ~validateId(id) THEN Throw(gate, "BAD_USER_INPUT", "Invalid subject ID format")
    ELSE Return(gate, {sj \in database.subject : sj.id = id})

\* adminResolvers.Query.usersWithoutEmployees
usersWithoutEmployees(database, t, env) ==
    LET gate == requireAdmin(database, t, env) IN
    IF gate.code # "PASS" THEN gate
    ELSE Return(gate, {u \in database.user :
                        /\ u.role = "EMPLOYEE" /\ u.otpVerified
                        /\ ~\E e \in database.employee : e.userId = u.id})

\* subjectIds.filter((id) => !foundIds.has(id))
invalidIds(database, subjectIds) ==
    {i \in Range(subjectIds) : ~\E sj \in database.subject : sj.id = i}

\* The EmployeeSubject rows a list of subject ids asks for.
LinksOf(employeeId, subjectIds) == {Link(employeeId, i) : i \in Range(subjectIds)}

\* A list that names a subject twice asks for two rows with one primary key:
\* the database refuses the write.
Repeats(subjectIds) == Cardinality(Range(subjectIds)) < Len(subjectIds)

\* createEmployeeInputSchema (age and class are taken as valid)
createEmployeeInputOk(userId, name, subjectIds) ==
    /\ validateId(userId)
    /\ IsName(name)
    /\ \A i \in Range(subjectIds) : validateId(i)

\* createEmployee up to its checks of the user and of the subject ids.
createEmployeeCheck(database, t, env, userId, name, subjectIds) ==
    LET gate == requireAdmin(database, t, env) IN
    IF gate.code # "PASS" THEN gate
    ELSE IF ~createEmployeeInputOk(userId, name, subjectIds)
         THEN Throw(gate, "BAD_USER_INPUT", "Validation error")
    ELSE IF ~\E u \in database.user : u.id = userId
         THEN Throw(gate, "NOT_FOUND", "User not found")
    ELSE IF \E e \in database.employee : e.userId = userId
         THEN Throw(gate, "BAD_USER_INPUT", "User already has an employee record")
    ELSE IF invalidIds(database, subjectIds) # {}
         THEN Throw(gate, "BAD_USER_INPUT", "Invalid subject IDs")
    ELSE gate

\* prisma.employee.create with its nested links, one statement under the
\* unique index Employee_userId_key and the primary key of EmployeeSubject.
createEmployeeWrite(database, userId, name, subjectIds) ==
    LET start == Outcome(database, "PASS", "")
        created == Profile(NewId(database.employee), userId, name)
    IN
    IF Repeats(subjectIds) \/ \E e \in database.employee : e.userId = userId
    THEN Throw(start, "INTERNAL_SERVER_ERROR", "Unique constraint failed")
    ELSE Return(Wrote(start,
                      [database EXCEPT
                          !.employee = @ \cup {created},
                          !.employeeSubject = @ \cup LinksOf(created.id, subjectIds)],
                      "employee.create"),
                {created})

\* adminResolvers.Mutation.createEmployee
createEmployee(database, t, env, userId, name, subjectIds) ==
    LET checked == createEmployeeCheck(database, t, env, userId, name, subjectIds) IN
    IF checked.code # "PASS" THEN checked
    ELSE createEmployeeWrite(checked.db, userId, name, subjectIds)

\* updateEmployeeInputSchema (age, class and isActive are taken as valid)
updateEmployeeInputOk(name, subjectIds) ==
    /\ name = NoName \/ IsName(name)
    /\ \A i \in Range(subjectIds) : validateId(i)

\* The employee row after prisma.employee.update with the data of the input.
UpdateName(database, id, name) ==
    [database EXCEPT !.employee =
        {IF e.id = id /\ name # NoName THEN [e EXCEPT !.name = name] ELSE e : e \in @}]

\* prisma.employeeSubject.deleteMany({ where: { employeeId: id } })
DeleteLinks(database, id) ==
    [database EXCEPT !.employeeSubject = {l \in @ : l.employeeId # id}]

\* Mutant: the links are deleted before the subject ids are checked.
updateEmployeeDeleteFirst(database, t, env, id, name, subjectIds) ==
    LET gate == requireAdmin(database, t, env)
        cleared == Wrote(gate, DeleteLinks(database, id), "employeeSubject.deleteMany")
    IN
    IF gate.code # "PASS" THEN gate
    ELSE IF ~validateId(id) THEN Throw(gate, "BAD_USER_INPUT", "Invalid employee ID format")
    ELSE IF ~updateEmployeeInputOk(name, subjectIds)
         THEN Throw(gate, "BAD_USER_INPUT", "Validation error")
    ELSE IF ~\E e \in database.employee : e.id = id
         THEN Throw(gate, "NOT_FOUND", "Employee not found")
    ELSE IF invalidIds(database, subjectIds) # {}
         THEN Throw(cleared, "BAD_USER_INPUT", "Invalid subject IDs")
    ELSE Return(Wrote(cleared, UpdateName(cleared.db, id, name), "employee.update"),
                {e \in UpdateName(cleared.db, id, name).employee : e.id = id})

\* adminResolvers.Mutation.updateEmployee
updateEmployee(database, t, env, id, name, subjectIds) ==
    LET gate == requireAdmin(database, t, env)
        cleared == Wrote(gate, DeleteLinks(database, id), "employeeSubject.deleteMany")
        linked == Wrote(cleared,
                        [cleared.db EXCEPT !.employeeSubject = @ \cup LinksOf(id, subjectIds)],
                        "employeeSubject.createMany")
        relinked == IF subjectIds = <<>> THEN gate ELSE linked
    IN
    IF gate.code # "PASS" THEN gate
    ELSE IF ~validateId(id) THEN Throw(gate, "BAD_USER_INPUT", "Invalid employee ID format")
    ELSE IF ~updateEmployeeInputOk(name, subjectIds)
         THEN Throw(gate, "BAD_USER_INPUT", "Validation error")
    ELSE IF ~\E e \in database.employee : e.id = id
         THEN Throw(gate, "NOT_FOUND", "Employee not found")
    ELSE IF invalidIds(database, subjectIds) # {}
         THEN Throw(gate, "BAD_USER_INPUT", "Invalid subject IDs")
    ELSE IF Repeats(subjectIds)
         THEN Throw(cleared, "INTERNAL_SERVER_ERROR", "Unique constraint failed")
    ELSE Return(Wrote(relinked, UpdateName(relinked.db, id, name), "employee.update"),
                {e \in UpdateName(relinked.db, id, name).employee : e.id = id})

\* Mutant: the employee row is deleted alone.
deleteEmployeeNoCascade(database, t, env, id) ==
    LET gate == requireAdmin(database, t, env) IN
    IF gate.code # "PASS" THEN gate
    ELSE IF ~validateId(id) THEN Throw(gate, "BAD_USER_INPUT", "Invalid employee ID format")
    ELSE IF ~\E e \in database.employee : e.id = id
         THEN Throw(gate, "NOT_FOUND", "Employee not found")
    ELSE Return(Wrote(gate, [database EXCEPT !.employee = {e \in @ : e.id # id}],
                      "employee.delete"),
                {})

\* adminResolvers.Mutation.deleteEmployee; the links and the attendance of
\* the employee go with it (ON DELETE CASCADE).
deleteEmployee(database, t, env, id) ==
    LET gate == requireAdmin(database, t, env) IN
    IF gate.code # "PASS" THEN gate
    ELSE IF ~validateId(id) THEN Throw(gate, "BAD_USER_INPUT", "Invalid employee ID format")
    ELSE IF ~\E e \in database.employee : e.id = id
         THEN Throw(gate, "NOT_FOUND", "Employee not found")
    ELSE Return(Wrote(gate,
                      [database EXCEPT
                          !.employee = {e \in @ : e.id # id},
                          !.employeeSubject = {l \in @ : l.employeeId # id},
                          !.attendance = {a \in @ : a.employeeId # id}],
                      "employee.delete"),
                {})

\* createSubject up to its existence check.
createSubjectCheck(database, t, env, name) ==
    LET gate == requireAdmin(database, t, env) IN
    IF gate.code # "PASS" THEN gate
    ELSE IF name = BadName THEN Throw(gate, "BAD_USER_INPUT", "Validation error")
    ELSE IF \E sj \in database.subject : sj.name = name
         THEN Throw(gate, "BAD_USER_INPUT", "Subject with this name already exists")
    ELSE gate

\* prisma.subject.create under the unique index Subject_name_key; the error
\* of the client is no GraphQLError and reaches the caller as an internal one.
createSubjectWrite(database, name) ==
    LET created == Subject(NewId(database.subject), name) IN
    IF \E sj \in database.subject : sj.name = name
    THEN Throw(Outcome(database, "PASS", ""), "INTERNAL_SERVER_ERROR", "Unique constraint failed")
    ELSE Return(Wrote(Outcome(database, "PASS", ""),
                      [database EXCEPT !.subject = @ \cup {created}], "subject.create"),
                {created})

\* adminResolvers.Mutation.createSubject
createSubject(database, t, env, name) ==
    LET checked == createSubjectCheck(database, t, env, name) IN
    IF checked.code # "PASS" THEN checked ELSE createSubjectWrite(checked.db, name)

\* adminResolvers.Mutation.deleteSubject; the links of the subject go with it.
deleteSubject(database, t, env, id) ==
    LET gate == requireAdmin(database, t, env) IN
    IF gate.code # "PASS" THEN gate
    ELSE IF ~validateId(id) THEN Throw(gate, "BAD_USER_INPUT", "Invalid subject ID format")
    ELSE IF ~\E sj \in database.subject : sj.id = id
         THEN Throw(gate, "NOT_FOUND", "Subject not found")
    ELSE Return(Wrote(gate,
                      [database EXCEPT
                          !.subject = {sj \in @ : sj.id # id},
                          !.employeeSubject = {l \in @ : l.subjectId # id}],
                      "subject.delete"),
                {})

\* status: z.boolean() (true for present)
Statuses == BOOLEAN

\* markAttendanceInputSchema: a UUID, a date that parses and is not in the
\* future (the status is a boolean).
markAttendanceInputOk(employeeId, date, t) ==
    /\ validateId(employeeId)
    /\ IsDate(date)
    /\ date.t <= t

\* prisma.attendance.upsert({ where: { employeeId_date }, update, create })
upsertAttendance(database, employeeId, date, status) ==
    IF \E a \in database.attendance : a.employeeId = employeeId /\ a.date = date
    THEN [database EXCEPT !.attendance =
            {IF a.employeeId = employeeId /\ a.date = date
             THEN [a EXCEPT !.status = status] ELSE a : a \in @}]
    ELSE [database EXCEPT !.attendance = @ \cup {Mark(employeeId, date, status)}]

\* Mutant: a second mark of the same day is inserted next to the first.
markAttendanceInsert(database, t, env, employeeId, date, status) ==
    LET gate == requireAdmin(database, t, env) IN
    IF gate.code # "PASS" THEN gate
    ELSE IF ~markAttendanceInputOk(employeeId, date, t)
         THEN Throw(gate, "BAD_USER_INPUT", "Validation error")
    ELSE IF ~\E e \in database.employee : e.id = employeeId
         THEN Throw(gate, "NOT_FOUND", "Employee not found")
    ELSE Return(Wrote(gate,
                      [database EXCEPT !.attendance = @ \cup {Mark(employeeId, date.t, status)}],
                      "attendance.upsert"),
                {Mark(employeeId, date.t, status)})

\* adminResolvers.Mutation.markAttendance; new Date(date) keeps the minute.
markAttendance(database, t, env, employeeId, date, status) ==
    LET gate == requireAdmin(database, t, env) IN
    IF gate.code # "PASS" THEN gate
    ELSE IF ~markAttendanceInputOk(employeeId, date, t)
         THEN Throw(gate, "BAD_USER_INPUT", "Validation error")
    ELSE IF ~\E e \in database.employee : e.id = employeeId
         THEN Throw(gate, "NOT_FOUND", "Employee not found")
    ELSE Return(Wrote(gate, upsertAttendance(database, employeeId, date.t, status),
                      "attendance.upsert"),
                {Mark(employeeId, date.t, status)})

\* Mutant: the email is stored as it was typed.
registerCheckNoFold(database, t, env, email) ==
    LET start == Outcome(database, "PASS", "")
        existing == {u \in database.user : u.email = email}
        existingUser == CHOOSE u \in existing : TRUE
    IN
    IF ~IsEmail(email) THEN Throw(start, "BAD_USER_INPUT", "Validation error")
    ELSE IF existing = {} THEN [start EXCEPT !.email = email]
    ELSE IF existingUser.otpVerified
         THEN Throw(start, "BAD_USER_INPUT", "User with this email already exists")
    ELSE [Return(TrySendOTPEmail(
                    Wrote(start, SetOtp(database, existingUser.id, env.otp, getOTPExpiry(t)),
                          "user.update"),
                    env),
                 {})
          EXCEPT !.email = email, !.requiresOTPVerification = TRUE]

\* register up to its existence check; an unverified account of the email
\* gets a new OTP and the call ends there.
registerCheck(database, t, env, email) ==
    LET start == Outcome(database, "PASS", "")
        folded == toLowerCaseTrim(email)
        existing == {u \in database.user : u.email = folded}
        existingUser == CHOOSE u \in existing : TRUE
    IN
    IF ~IsEmail(email) THEN Throw(start, "BAD_USER_INPUT", "Validation error")
    ELSE IF existing = {} THEN [start EXCEPT !.email = folded]
    ELSE IF existingUser.otpVerified
         THEN Throw(start, "BAD_USER_INPUT", "User with this email already exists")
    ELSE [Return(TrySendOTPEmail(
                    Wrote(start, SetOtp(database, existingUser.id, env.otp, getOTPExpiry(t)),
                          "user.update"),
                    env),
                 {})
          EXCEPT !.email = folded, !.requiresOTPVerification = TRUE]

\* prisma.user.create under the unique index User_email_key, then the mail:
\* here a failure to send is thrown again as EMAIL_SEND_FAILED.
registerWrite(database, t, env, email, password, role) ==
    LET start == [Outcome(database, "PASS", "") EXCEPT !.email = email]
        created == Account(NewId(database.user), email, hash(password), role, FALSE,
                           env.otp, getOTPExpiry(t))
        stored == Wrote(start, [database EXCEPT !.user = @ \cup {created}], "user.create")
        mailed == TrySendOTPEmail(stored, env)
    IN
    IF \E u \in database.user : u.email = email
    THEN Throw(start, "INTERNAL_SERVER_ERROR", "Unique constraint failed")
    ELSE IF env.mailOk THEN [Return(mailed, {}) EXCEPT !.requiresOTPVerification = TRUE]
    ELSE Throw(mailed, "EMAIL_SEND_FAILED", "Failed to send verification email")

\* authResolvers.Mutation.register
register(database, t, env, email, password, role) ==
    LET checked == registerCheck(database, t, env, email) IN
    IF checked.code # "PASS" THEN checked
    ELSE registerWrite(checked.db, t, env, checked.email, password, role)

\* Mutant: sendOTP stores a new code for a verified account too.
sendOTPAlways(database, t, env, email) ==
    LET start == Outcome(database, "PASS", "")
        folded == toLowerCaseTrim(email)
        found == {u \in database.user : u.email = folded}
        user == CHOOSE u \in found : TRUE
        mailed == TrySendOTPEmail(
                    Wrote(start, SetOtp(database, user.id, env.otp, getOTPExpiry(t)),
                          "user.update"),
                    env)
    IN
    IF found = {} THEN Throw(start, "BAD_USER_INPUT", "User not found with this email")
    ELSE IF env.mailOk THEN Return(mailed, {})
    ELSE Throw(mailed, "INTERNAL_SERVER_ERROR", "Failed to send OTP email")

\* authResolvers.Mutation.sendOTP; sendOTPEmail is awaited outside any
\* try / catch, its Error reaches the caller as an internal one.
sendOTP(database, t, env, email) ==
    LET start == Outcome(database, "PASS", "")
        folded == toLowerCaseTrim(email)
        found == {u \in database.user : u.email = folded}
        user == CHOOSE u \in found : TRUE
        mailed == TrySendOTPEmail(
                    Wrote(start, SetOtp(database, user.id, env.otp, getOTPExpiry(t)),
                          "user.update"),
                    env)
    IN
    IF found = {} THEN Throw(start, "BAD_USER_INPUT", "User not found with this email")
    ELSE IF user.otpVerified THEN Return(start, {})
    ELSE IF env.mailOk THEN Return(mailed, {})
    ELSE Throw(mailed, "INTERNAL_SERVER_ERROR", "Failed to send OTP email")

\* Mutant: resendOTP sends the stored code again with a new expiry.
resendOTPKeepsCode(database, t, env, email) ==
    LET start == Outcome(database, "PASS", "")
        folded == toLowerCaseTrim(email)
        found == {u \in database.user : u.email = folded}
        user == CHOOSE u \in found : TRUE
        kept == IF user.otp = NoOtp THEN env.otp ELSE user.otp
        mailed == TrySendOTPEmail(
                    Wrote(start, SetOtp(database, user.id, kept, getOTPExpiry(t)),
                          "user.update"),
                    env)
    IN
    IF found = {} THEN Throw(start, "BAD_USER_INPUT", "User not found with this email")
    ELSE IF user.otpVerified THEN Return(start, {})
    ELSE IF env.mailOk THEN Return(mailed, {})
    ELSE Throw(mailed, "INTERNAL_SERVER_ERROR", "Failed to send OTP email")

\* authResolvers.Mutation.resendOTP
resendOTP(database, t, env, email) ==
    LET start == Outcome(database, "PASS", "")
        folded == toLowerCaseTrim(email)
        found == {u \in database.user : u.email = folded}
        user == CHOOSE u \in found : TRUE
        mailed == TrySendOTPEmail(
                    Wrote(start, SetOtp(database, user.id, env.otp, getOTPExpiry(t)),
                          "user.update"),
                    env)
    IN
    IF found = {} THEN Throw(start, "BAD_USER_INPUT", "User not found with this email")
    ELSE IF user.otpVerified THEN Return(start, {})
    ELSE IF env.mailOk THEN Return(mailed, {})
    ELSE Throw(mailed, "INTERNAL_SERVER_ERROR", "Failed to send OTP email")

\* Mutant: every stored expiry counts as not yet reached.
isOTPValidAlways(expiryTime, t) == TRUE

\* isOTPValid: new Date() < new Date(expiryTime)
isOTPValid(expiryTime, t) == t < expiryTime

\* Mutant: a successful verification leaves the code and its expiry stored.
verifyOTPKeepsCode(database, t, env, email, otp) ==
    LET start == Outcome(database, "PASS", "")
        folded == toLowerCaseTrim(email)
        found == {u \in database.user : u.email = folded}
        user == CHOOSE u \in found : TRUE
        verified == [database EXCEPT !.user =
                        {IF u.id = user.id THEN [u EXCEPT !.otpVerified = TRUE] ELSE u
                            : u \in @}]
    IN
    IF found = {} THEN Throw(start, "BAD_USER_INPUT", "User not found")
    ELSE IF user.otpVerified
         THEN [Return(start, {user}) EXCEPT !.token = sign(user.id, user.role)]
    ELSE IF user.otp = NoOtp \/ user.otpExpires = NoExpiry
         THEN Throw(start, "BAD_USER_INPUT", "No OTP found. Please request a new one.")
    ELSE IF ~isOTPValid(user.otpExpires, t)
         THEN Throw(start, "OTP_EXPIRED", "OTP has expired. Please request a new one.")
    ELSE IF user.otp # otp THEN Throw(start, "INVALID_OTP", "Invalid OTP")
    ELSE [Return(Wrote(start, verified, "user.update"),
                 {u \in verified.user : u.id = user.id})
          EXCEPT !.token = sign(user.id, user.role)]

\* authResolvers.Mutation.verifyOTP: the input is not validated; a verified
\* account gets its token before the code is looked at.
verifyOTP(database, t, env, email, otp) ==
    LET start == Outcome(database, "PASS", "")
        folded == toLowerCaseTrim(email)
        found == {u \in database.user : u.email = folded}
        user == CHOOSE u \in found : TRUE
        verified == [database EXCEPT !.user =
                        {IF u.id = user.id
                         THEN [u EXCEPT !.otpVerified = TRUE, !.otp = NoOtp,
                                        !.otpExpires = NoExpiry]
                         ELSE u : u \in @}]
    IN
    IF found = {} THEN Throw(start, "BAD_USER_INPUT", "User not found")
    ELSE IF user.otpVerified
         THEN [Return(start, {user}) EXCEPT !.token = sign(user.id, user.role)]
    ELSE IF user.otp = NoOtp \/ user.otpExpires = NoExpiry
         THEN Throw(start, "BAD_USER_INPUT", "No OTP found. Please request a new one.")
    ELSE IF ~isOTPValid(user.otpExpires, t)
         THEN Throw(start, "OTP_EXPIRED", "OTP has expired. Please request a new one.")
    ELSE IF user.otp # otp THEN Throw(start, "INVALID_OTP", "Invalid OTP")
    ELSE [Return(Wrote(start, verified, "user.update"),
                 {u \in verified.user : u.id = user.id})
          EXCEPT !.token = sign(user.id, user.role)]

\* Mutant: login signs a token without looking at otpVerified.
loginNoVerifiedCheck(database, t, env, email, password) ==
    LET start == Outcome(database, "PASS", "")
        folded == toLowerCaseTrim(email)
        found == {u \in database.user : u.email = folded}
        user == CHOOSE u \in found : TRUE
    IN
    IF ~IsEmail(email) THEN Throw(start, "BAD_USER_INPUT", "Validation error")
    ELSE IF found = {} THEN Throw(start, "BAD_USER_INPUT", "Invalid email or password")
    ELSE IF ~compare(password, user.passwordHash)
         THEN Throw(start, "BAD_USER_INPUT", "Invalid email or password")
    ELSE [Return(start, {user}) EXCEPT !.token = sign(user.id, user.role)]

\* authResolvers.Mutation.login
login(database, t, env, email, password) ==
    LET start == Outcome(database, "PASS", "")
        folded == toLowerCaseTrim(email)
        found == {u \in database.user : u.email = folded}
        user == CHOOSE u \in found : TRUE
        mailed == TrySendOTPEmail(
                    Wrote(start, SetOtp(database, user.id, env.otp, getOTPExpiry(t)),
                          "user.update"),
                    env)
    IN
    IF ~IsEmail(email) THEN Throw(start, "BAD_USER_INPUT", "Validation error")
    ELSE IF found = {} THEN Throw(start, "BAD_USER_INPUT", "Invalid email or password")
    ELSE IF ~compare(password, user.passwordHash)
         THEN Throw(start, "BAD_USER_INPUT", "Invalid email or password")
    ELSE IF ~user.otpVerified
         THEN [mailed EXCEPT !.code = "OK", !.success = FALSE, !.email = folded,
                             !.requiresOTPVerification = TRUE]
    ELSE [Return(start, {user}) EXCEPT !.token = sign(user.id, user.role)]

\* authResolvers.Query.me
me(database, t, env) ==
    LET start == Outcome(database, "PASS", "")
        found == {u \in database.user : u.id = env.user.id}
        dbUser == CHOOSE u \in found : TRUE
        mailed == TrySendOTPEmail(
                    Wrote(start, SetOtp(database, dbUser.id, env.otp, getOTPExpiry(t)),
                          "user.update"),
                    env)
    IN
    IF env.user = NoUser THEN Throw(start, "UNAUTHENTICATED", "Not authenticated")
    ELSE IF found # {} /\ ~dbUser.otpVerified
         THEN [Throw(mailed, "OTP_REQUIRED", "Email not verified") EXCEPT !.email = dbUser.email]
    ELSE Return(start, found)

(***************************************************************************)
(* Resolver calls, one after the other                                     *)
(***************************************************************************)

\* The clock at the start: the second minute of day 1, so that the date
\* arguments name days that are past, today and to come.
StartTime == MinutesPerDay + 1

\* The rows the service starts from: the admin, perhaps an employee user
\* (each verified or a row from before the OTP columns, which the migration
\* leaves unverified), their profiles, a subject, a link and a mark.
SeedAdmin(v) ==
    Account(1, Email("a", FALSE, FALSE), hash("Secret12"), "ADMIN", v, NoOtp, NoExpiry)
SeedEmployee(v) ==
    Account(2, Email("b", FALSE, FALSE), hash("Secret12"), "EMPLOYEE", v, NoOtp, NoExpiry)
SeedProfiles == {Profile(1, 1, "Al"), Profile(2, 2, "Bo")}
SeedSubject == Subject(1, "Math")
SeedLink == Link(1, 1)
SeedMark == Mark(1, MinutesPerDay, TRUE)

ServiceDbs ==
    {[user |-> us, employee |-> es, subject |-> ss, employeeSubject |-> ks,
      attendance |-> ms] :
        us \in {{SeedAdmin(v)} : v \in BOOLEAN}
               \cup {{SeedAdmin(v), SeedEmployee(w)} : v \in BOOLEAN, w \in BOOLEAN},
        es \in SUBSET SeedProfiles,
        ss \in SUBSET {SeedSubject},
        ks \in SUBSET {SeedLink},
        ms \in SUBSET {SeedMark}}

\* Foreign keys: a profile has its user, a link its employee and its
\* subject, a mark its employee.
ForeignKeys(database) ==
    /\ \A e \in database.employee : \E u \in database.user : u.id = e.userId
    /\ \A l \in database.employeeSubject :
        /\ \E e \in database.employee : e.id = l.employeeId
        /\ \E sj \in database.subject : sj.id = l.subjectId
    /\ \A a \in database.attendance : \E e \in database.employee : e.id = a.employeeId

\* ctx.user of a call: no token, or the token of one of the users (it
\* carries the user's id and role).
Identities(database) ==
    {NoUser} \cup {UserPayload(u.id, u.role) : u \in database.user}

\* The environments of a public call: any code, the mail sent or not.
Envs(user) ==
    {Env(user, otp, mailOk) : otp \in OtpCodes, mailOk \in BOOLEAN}

\* The environments of a gated call: generateOTP and sendMail are reached
\* only on behalf of an unverified caller, for any other one environment
\* stands for all.
GateEnvs(database, user) ==
    IF \E u \in database.user : u.id = user.id /\ ~u.otpVerified
    THEN Envs(user)
    ELSE {Env(user, CHOOSE otp \in OtpCodes : TRUE, TRUE)}

\* The further arguments of a call that names none.
NoArgs == [none |-> TRUE]

NoCall ==
    [op |-> "none", user |-> NoUser, key |-> BadId, args |-> NoArgs, before |-> EmptyDb,
     at |-> 0, code |-> "", msg |-> "", email |-> NoEmail, mail |-> "none",
     writes |-> <<>>, data |-> {}, token |-> NoToken, success |-> FALSE,
     requiresOTPVerification |-> FALSE]

\* What is kept of a call: the operation, the caller, the id it named (for
\* updateMyName the name), its further arguments, the rows before it, the
\* time it was made and its outcome.
Called(op, user, key, args, before, at, out) ==
    [op |-> op, user |-> user, key |-> key, args |-> args, before |-> before, at |-> at,
     code |-> out.code, msg |-> out.msg, email |-> out.email, mail |-> out.mail,
     writes |-> out.writes, data |-> out.data, token |-> out.token,
     success |-> out.success, requiresOTPVerification |-> out.requiresOTPVerification]

\* The OTPs the User rows of a database hold.
StoredOtps(database) ==
    {[email |-> u.email, otp |-> u.otp, otpExpires |-> u.otpExpires] :
        u \in {x \in database.user : x.otp # NoOtp}}

\* The numbered ids stand for UUIDs, which never run out: a call that would
\* need one more id than the model has is left out.
IdsLeft(database) ==
    /\ \A u \in database.user : u.id # BadId
    /\ \A e \in database.employee : e.id # BadId
    /\ \A sj \in database.subject : sj.id # BadId

\* No call was made yet.
Fresh == lastCall = NoCall

\* One resolver call from its start to its response.
DoWith(op, user, key, args, out) ==
    /\ IdsLeft(out.db)
    /\ db' = out.db
    /\ lastCall' = Called(op, user, key, args, db, now, out)
    /\ nCalls' = nCalls + 1
    /\ issued' = issued \cup StoredOtps(out.db)
    /\ UNCHANGED <<now, procs, pageVars, batchVars, loaderVars, filterVars>>

Do(op, user, key, out) == DoWith(op, user, key, NoArgs, out)

QueryDates == {NoDate, BadDate, DateString(MinutesPerDay)}

Employee ==
    /\ Fresh
    /\ \E user \in Identities(db), id \in IdArgs : \E env \in GateEnvs(db, user) :
        Do("employee", user, id, employee(db, now, env, id))

AttendanceByEmployee ==
    /\ Fresh
    /\ \E user \in Identities(db), id \in IdArgs, startDate \in QueryDates, endDate \in QueryDates :
        \E env \in GateEnvs(db, user) :
            Do("attendanceByEmployee", user, id,
               attendanceByEmployee(db, now, env, id, startDate, endDate))

MyProfile ==
    /\ Fresh
    /\ \E user \in Identities(db) : \E env \in GateEnvs(db, user) :
        Do("myProfile", user, BadId, myProfile(db, now, env))

UpdateMyName ==
    /\ Fresh
    /\ \E user \in Identities(db), name \in NameArgs : \E env \in GateEnvs(db, user) :
        Do("updateMyName", user, name, updateMyName(db, now, env, name))

Employees ==
    /\ Fresh
    /\ \E user \in Identities(db), argsOk \in BOOLEAN : \E env \in GateEnvs(db, user) :
        Do("employees", user, BadId, employees(db, now, env, argsOk))

Subjects ==
    /\ Fresh
    /\ \E user \in Identities(db) : \E env \in GateEnvs(db, user) :
        Do("subjects", user, BadId, subjects(db, now, env))

SubjectById ==
    /\ Fresh
    /\ \E user \in Identities(db), id \in IdArgs : \E env \in GateEnvs(db, user) :
        Do("subject", user, id, subject(db, now, env, id))

UsersWithoutEmployees ==
    /\ Fresh
    /\ \E user \in Identities(db) : \E env \in GateEnvs(db, user) :
        Do("usersWithoutEmployees", user, BadId, usersWithoutEmployees(db, now, env))

CreateEmployee ==
    /\ Fresh
    /\ \E user \in Identities(db), userId \in IdArgs, name \in NameArgs,
       subjectIds \in SubjectIdLists :
        \E env \in GateEnvs(db, user) :
            Do("createEmployee", user, userId,
               createEmployee(db, now, env, userId, name, subjectIds))

UpdateEmployee ==
    /\ Fresh
    /\ \E user \in Identities(db), id \in IdArgs, name \in NameArgs \cup {NoName},
       subjectIds \in SubjectIdLists :
        \E env \in GateEnvs(db, user) :
            DoWith("updateEmployee", user, id, [subjectIds |-> subjectIds],
                   updateEmployee(db, now, env, id, name, subjectIds))

DeleteEmployee ==
    /\ Fresh
    /\ \E user \in Identities(db), id \in IdArgs : \E env \in GateEnvs(db, user) :
        Do("deleteEmployee", user, id, deleteEmployee(db, now, env, id))

CreateSubject ==
    /\ Fresh
    /\ \E user \in Identities(db), name \in SubjectNames : \E env \in GateEnvs(db, user) :
        Do("createSubject", user, BadId, createSubject(db, now, env, name))

DeleteSubject ==
    /\ Fresh
    /\ \E user \in Identities(db), id \in IdArgs : \E env \in GateEnvs(db, user) :
        Do("deleteSubject", user, id, deleteSubject(db, now, env, id))

MarkAttendanceWhen(ready) ==
    /\ ready
    /\ \E user \in Identities(db), id \in IdArgs, date \in DateStrings \cup {BadDate},
       status \in Statuses :
        \E env \in GateEnvs(db, user) :
            Do("markAttendance", user, id,
               markAttendance(db, now, env, id, date, status))

MarkAttendance == MarkAttendanceWhen(Fresh)

Register ==
    /\ Fresh
    /\ \E email \in EmailArgs, password \in Passwords, role \in Roles :
        \E env \in Envs(NoUser) :
            DoWith("register", NoUser, BadId, [email |-> email, password |-> password],
                   register(db, now, env, email, password, role))

SendOTP ==
    /\ Fresh
    /\ \E email \in EmailArgs : \E env \in Envs(NoUser) :
        Do("sendOTP", NoUser, BadId, sendOTP(db, now, env, email))

ResendOTP ==
    /\ Fresh
    /\ \E email \in EmailArgs : \E env \in Envs(NoUser) :
        Do("resendOTP", NoUser, BadId, resendOTP(db, now, env, email))

\* A request in progress: its operation and argument, the email register
\* works with, where it stands and how it ended.
Proc(request, pc, code, msg) ==
    [op |-> request.op, arg |-> request.arg, email |-> NoEmail, pc |-> pc,
     code |-> code, msg |-> msg]

\* No concurrent request is in progress.
ProcsIdle == procs = [r \in Reqs |-> Proc([op |-> "none", arg |-> BadId], "done", "", "")]

ServiceIdle ==
    /\ now = StartTime
    /\ lastCall = NoCall
    /\ nCalls = 0
    /\ ProcsIdle
    /\ issued = {}

InitService ==
    /\ db \in {d \in ServiceDbs : ForeignKeys(d)}
    /\ ServiceIdle

NextService ==
    \/ Employee
    \/ AttendanceByEmployee
    \/ MyProfile
    \/ UpdateMyName
    \/ Employees
    \/ Subjects
    \/ SubjectById
    \/ UsersWithoutEmployees
    \/ CreateEmployee
    \/ UpdateEmployee
    \/ DeleteEmployee
    \/ CreateSubject
    \/ DeleteSubject
    \/ MarkAttendance
    \/ Register
    \/ SendOTP
    \/ ResendOTP

(***************************************************************************)
(* Attendance marked again and again                                       *)
(***************************************************************************)

\* Two verified users, the admin and an employee, each with a profile, and
\* no attendance yet.
AttendanceDb ==
    [EmptyDb EXCEPT !.user = {SeedAdmin(TRUE), SeedEmployee(TRUE)},
                    !.employee = SeedProfiles]

InitAttendance ==
    /\ db = AttendanceDb
    /\ ServiceIdle

MarkAttendanceAgain == MarkAttendanceWhen(nCalls < MaxMarks)

NextAttendance == MarkAttendanceAgain

(***************************************************************************)
(* The filter of the employees query                                       *)
(***************************************************************************)

MaxLen == 2

\* Text is a sequence of letters; "A" is the capital of "a".
Letters == {"a", "A", "b"}
Texts(n) == UNION {[1..k -> Letters] : k \in 0..n}

\* String.prototype.toLowerCase, letter by letter
toLowerCase(text) == [i \in 1..Len(text) |-> IF text[i] = "A" THEN "a" ELSE text[i]]

\* A field of the filter argument: left out, or given with a value.
Omitted == [given |-> FALSE, value |-> <<>>]
Given(value) == [given |-> TRUE, value |-> value]

\* employeeFilterSchema: name, age, class, isActive, each optional
EmployeeFilter(name, age, class, isActive) ==
    [name |-> name, age |-> age, class |-> class, isActive |-> isActive]

\* An Employee row as far as the filter looks at it.
Listed(id, name, age, class, isActive) ==
    [id |-> id, name |-> name, age |-> age, class |-> class, isActive |-> isActive]

\* Prisma { contains: text, mode: 'insensitive' }
containsInsensitive(field, text) ==
    \E i \in 0..(Len(field) - Len(text)) :
        toLowerCase(SubSeq(field, i + 1, i + Len(text))) = toLowerCase(text)

\* The where clause of the employees query for the filter fields, applied to
\* the rows of verified users of role EMPLOYEE: a field is used when it is
\* truthy (name, class) or not undefined (age, isActive).
employeesWhere(rows, filter) ==
    {e \in rows :
        /\ (filter.name.given /\ filter.name.value # <<>>)
                => containsInsensitive(e.name, filter.name.value)
        /\ filter.age.given => e.age = filter.age.value
        /\ (filter.class.given /\ filter.class.value # <<>>)
                => e.class = filter.class.value
        /\ filter.isActive.given => e.isActive = filter.isActive.value}

NotFiltered == {[id |-> 0]}

\* The texts a client filters by.
TextArgs ==
    {Omitted, Given(<<>>), Given(<<"a">>), Given(<<"A">>), Given(<<"b">>), Given(<<"A", "b">>)}

Filters ==
    {EmployeeFilter(name, age, class, isActive) :
        name \in TextArgs, age \in {Omitted, Given(0), Given(1)},
        class \in TextArgs, isActive \in {Omitted, Given(TRUE), Given(FALSE)}}

FilterRows == {Listed(1, name, 0, class, TRUE) : name \in Texts(MaxLen), class \in Texts(MaxLen)}

FilterIdle ==
    /\ flFilter = EmployeeFilter(Omitted, Omitted, Omitted, Omitted)
    /\ flRows = {}
    /\ flOut = NotFiltered

InitFilter ==
    /\ flFilter \in Filters
    /\ flRows \in {{e} : e \in FilterRows}
    /\ flOut = NotFiltered

ApplyFilter ==
    /\ flOut = NotFiltered
    /\ flOut' = employeesWhere(flRows, flFilter)
    /\ UNCHANGED <<flFilter, flRows, db, pageVars, batchVars, loaderVars, serviceVars>>

NextFilter == ApplyFilter

(***************************************************************************)
(* The life of an OTP: public auth calls one after another, time passing   *)
(***************************************************************************)

MaxCalls == 2
MaxTicks == 2

\* Time passes in steps of half the life of an OTP.
TickMinutes == OtpTtlMinutes \div 2

\* A code no call ever generates, next to the ones generateOTP draws here.
NeverIssued == "999999"
SubmittedCodes == OtpCodes \cup {NeverIssued}

\* The mailbox of the seeded account typed in capitals, and one of no account.
OtpEmails == {Email("a", TRUE, FALSE), Email("c", FALSE, FALSE)}

\* The seeded account: never sent a code (created before the OTP columns),
\* holding a code that is still good, holding one that has just run out, or
\* verified.
OtpAccounts ==
    {SeedAdmin(FALSE),
     [SeedAdmin(FALSE) EXCEPT !.otp = "111111", !.otpExpires = StartTime + TickMinutes],
     [SeedAdmin(FALSE) EXCEPT !.otp = "111111", !.otpExpires = StartTime],
     SeedAdmin(TRUE)}

OtpDbs == {EmptyDb} \cup {[EmptyDb EXCEPT !.user = {u}] : u \in OtpAccounts}

\* What an auth call was given, and the code generateOTP drew during it.
AuthArgs(email, password, otp, generated) ==
    [email |-> email, password |-> password, otp |-> otp, generated |-> generated]

More == nCalls < MaxCalls

RegisterCall ==
    /\ More
    /\ \E email \in OtpEmails : \E env \in Envs(NoUser) :
        DoWith("register", NoUser, BadId, AuthArgs(email, "Secret12", NoOtp, env.otp),
               register(db, now, env, email, "Secret12", "EMPLOYEE"))

LoginCall ==
    /\ More
    /\ \E email \in OtpEmails, password \in Passwords : \E env \in Envs(NoUser) :
        DoWith("login", NoUser, BadId, AuthArgs(email, password, NoOtp, env.otp),
               login(db, now, env, email, password))

SendOTPCall ==
    /\ More
    /\ \E email \in OtpEmails : \E env \in Envs(NoUser) :
        DoWith("sendOTP", NoUser, BadId, AuthArgs(email, "", NoOtp, env.otp),
               sendOTP(db, now, env, email))

ResendOTPCall ==
    /\ More
    /\ \E email \in OtpEmails : \E env \in Envs(NoUser) :
        DoWith("resendOTP", NoUser, BadId, AuthArgs(email, "", NoOtp, env.otp),
               resendOTP(db, now, env, email))

VerifyOTPCall ==
    /\ More
    /\ \E email \in OtpEmails, otp \in SubmittedCodes :
        DoWith("verifyOTP", NoUser, BadId, AuthArgs(email, "", otp, NoOtp),
               verifyOTP(db, now, Env(NoUser, NoOtp, TRUE), email, otp))

MeCall ==
    /\ More
    /\ \E user \in Identities(db) : \E env \in GateEnvs(db, user) :
        DoWith("me", user, BadId, AuthArgs(NoEmail, "", NoOtp, env.otp), me(db, now, env))

MyProfileCall ==
    /\ More
    /\ \E user \in Identities(db) : \E env \in GateEnvs(db, user) :
        DoWith("myProfile", user, BadId, AuthArgs(NoEmail, "", NoOtp, env.otp),
               myProfile(db, now, env))

Tick ==
    /\ now < StartTime + MaxTicks * TickMinutes
    /\ now' = now + TickMinutes
    /\ UNCHANGED <<db, lastCall, nCalls, procs, issued, pageVars, batchVars, loaderVars, filterVars>>

InitOtp ==
    /\ db \in OtpDbs
    /\ now = StartTime
    /\ lastCall = NoCall
    /\ nCalls = 0
    /\ ProcsIdle
    /\ issued = StoredOtps(db)

NextOtp ==
    \/ RegisterCall
    \/ LoginCall
    \/ SendOTPCall
    \/ ResendOTPCall
    \/ VerifyOTPCall
    \/ MeCall
    \/ MyProfileCall
    \/ Tick

(***************************************************************************)
(* Create mutations running concurrently                                   *)
(***************************************************************************)

\* The requests that run side by side: register for a mailbox that is taken
\* and one that is free, typed in lower case, with capitals or with spaces;
\* createSubject and createEmployee by the verified admin.
RaceEmails ==
    {Email(n, u, FALSE) : n \in {"a", "c"}, u \in BOOLEAN} \cup {Email("c", FALSE, TRUE)}

RaceRequests ==
    {[op |-> "register", arg |-> e] : e \in RaceEmails}
    \cup {[op |-> "createSubject", arg |-> n] : n \in SubjectNames}
    \cup {[op |-> "createEmployee", arg |-> i] : i \in IdArgs}

\* The verified admin alone, and a subject.
RaceDb ==
    [EmptyDb EXCEPT !.user = {SeedAdmin(TRUE)}, !.subject = {SeedSubject}]

RaceAdmin == UserPayload(1, "ADMIN")

InitRace ==
    /\ db = RaceDb
    /\ now = StartTime
    /\ lastCall = NoCall
    /\ nCalls = 0
    /\ procs \in [Reqs -> {Proc(r, "check", "", "") : r \in RaceRequests}]
    /\ issued = {}

\* A request went through its checks: it ends there with an error (or, for
\* register, with the new OTP of an unverified account), or goes on to write.
Checked(p, out) ==
    /\ IdsLeft(out.db)
    /\ db' = out.db
    /\ procs' = [procs EXCEPT ![p] =
                    IF out.code = "PASS"
                    THEN [@ EXCEPT !.pc = "write", !.email = out.email]
                    ELSE [@ EXCEPT !.pc = "done", !.code = out.code, !.msg = out.msg]]
    /\ issued' = issued \cup StoredOtps(out.db)
    /\ UNCHANGED <<now, lastCall, nCalls, pageVars, batchVars, loaderVars, filterVars>>

\* A request made its write and returned.
Written(p, out) ==
    /\ IdsLeft(out.db)
    /\ db' = out.db
    /\ procs' = [procs EXCEPT ![p] = [@ EXCEPT !.pc = "done", !.code = out.code,
                                                !.msg = out.msg]]
    /\ issued' = issued \cup StoredOtps(out.db)
    /\ UNCHANGED <<now, lastCall, nCalls, pageVars, batchVars, loaderVars, filterVars>>

RegisterCheck ==
    \E p \in Reqs :
        /\ procs[p].op = "register" /\ procs[p].pc = "check"
        /\ \E env \in Envs(NoUser) : Checked(p, registerCheck(db, now, env, procs[p].arg))

RegisterWrite ==
    \E p \in Reqs :
        /\ procs[p].op = "register" /\ procs[p].pc = "write"
        /\ \E env \in Envs(NoUser) :
            Written(p, registerWrite(db, now, env, procs[p].email, "Secret12", "EMPLOYEE"))

CreateSubjectCheck ==
    \E p \in Reqs :
        /\ procs[p].op = "createSubject" /\ procs[p].pc = "check"
        /\ \E env \in GateEnvs(db, RaceAdmin) :
            Checked(p, createSubjectCheck(db, now, env, procs[p].arg))

CreateSubjectWrite ==
    \E p \in Reqs :
        /\ procs[p].op = "createSubject" /\ procs[p].pc = "write"
        /\ Written(p, createSubjectWrite(db, procs[p].arg))

CreateEmployeeCheck ==
    \E p \in Reqs :
        /\ procs[p].op = "createEmployee" /\ procs[p].pc = "check"
        /\ \E env \in GateEnvs(db, RaceAdmin) :
            Checked(p, createEmployeeCheck(db, now, env, procs[p].arg, "Al", <<>>))

CreateEmployeeWrite ==
    \E p \in Reqs :
        /\ procs[p].op = "createEmployee" /\ procs[p].pc = "write"
        /\ Written(p, createEmployeeWrite(db, procs[p].arg, "Al", <<>>))

NextRace ==
    \/ RegisterCheck
    \/ RegisterWrite
    \/ CreateSubjectCheck
    \/ CreateSubjectWrite
    \/ CreateEmployeeCheck
    \/ CreateEmployeeWrite

\* Each specification starts the part it follows and leaves the others idle.
InitSpecOptions == InitOptions /\ BatchIdle /\ LoadersIdle /\ ServiceIdle /\ db = EmptyDb /\ FilterIdle

SpecOptions == InitSpecOptions /\ [][NextOptions]_vars

InitSpecPage == InitPage /\ BatchIdle /\ LoadersIdle /\ ServiceIdle /\ db = EmptyDb /\ FilterIdle

SpecPage == InitSpecPage /\ [][NextPage]_vars

InitSpecBatch == InitBatch /\ PageIdle /\ LoadersIdle /\ ServiceIdle /\ FilterIdle

SpecBatch == InitSpecBatch /\ [][NextBatch]_vars

Init == InitLoaders /\ db = SeedDb /\ PageIdle /\ BatchIdle /\ ServiceIdle /\ FilterIdle

Spec == Init /\ [][Next]_vars

InitSpecService == InitService /\ PageIdle /\ BatchIdle /\ LoadersIdle /\ FilterIdle

SpecService == InitSpecService /\ [][NextService]_vars

InitSpecOtp == InitOtp /\ PageIdle /\ BatchIdle /\ LoadersIdle /\ FilterIdle

SpecOtp == InitSpecOtp /\ [][NextOtp]_vars

InitSpecFilter ==
    InitFilter /\ PageIdle /\ BatchIdle /\ LoadersIdle /\ ServiceIdle /\ db = EmptyDb

SpecFilter == InitSpecFilter /\ [][NextFilter]_vars

InitSpecAttendance == InitAttendance /\ PageIdle /\ BatchIdle /\ LoadersIdle /\ FilterIdle

SpecAttendance == InitSpecAttendance /\ [][NextAttendance]_vars

InitSpecRace == InitRace /\ PageIdle /\ BatchIdle /\ LoadersIdle /\ FilterIdle

SpecRace == InitSpecRace /\ [][NextRace]_vars

(***************************************************************************)
(* Loader claims                                                           *)
(***************************************************************************)

\* The loader a behaviour loads from; the other loaders of a set stay as
\* createDataLoaders made them.
Observed == {resolver}

\* The findMany calls made for batch b of a loader.
CallsOf(ld, b) == {i \in DOMAIN ld.calls : ld.calls[i].batch = b}

\* The findMany calls of a loader that carry key k.
CallsWith(ld, k) == {i \in DOMAIN ld.calls : k \in Range(ld.calls[i].keys)}

\* The batches of a loader that failed with key k among their keys.
FailedWith(ld, k) ==
    {b \in DOMAIN ld.batches :
        ld.batches[b].state = "failed" /\ k \in Range(ld.batches[b].keys)}

\* The keys the callers of a batch asked for.
AskedIn(batch) == Range(batch.keys) \cup {batch.cacheHits[i].key : i \in DOMAIN batch.cacheHits}

C2_AtMostOnce ==
    \A s \in SetIds, l \in Observed, k \in Ids :
        Cardinality(CallsWith(ls[s][l], k)) <= 1

\* C2 as amended: a key is sent to the gateway once, and once more only
\* after a fetch of it failed; while its fetch is pending or has succeeded
\* there is one fetch of it, and a repeated load is answered with the promise
\* of that fetch.
C2_AtMostOnceUnlessFailed ==
    \A s \in SetIds, l \in Observed :
        LET ld == ls[s][l] IN
        /\ \A k \in Ids :
            /\ Cardinality(CallsWith(ld, k)) =
                  Cardinality(FailedWith(ld, k))
                  + (IF k \in DOMAIN ld.cache /\ HasDispatched(ld.batches[ld.cache[k][1]])
                     THEN 1 ELSE 0)
            /\ Cardinality({b \in DOMAIN ld.batches :
                    ld.batches[b].state # "failed" /\ k \in Range(ld.batches[b].keys)}) <= 1
        /\ \A b \in DOMAIN ld.batches :
            \A h \in DOMAIN ld.batches[b].cacheHits :
                LET hit == ld.batches[b].cacheHits[h] IN
                /\ hit.to[1] \in DOMAIN ld.batches
                /\ hit.to[2] \in DOMAIN ld.batches[hit.to[1]].keys
                /\ ld.batches[hit.to[1]].keys[hit.to[2]] = hit.key

\* C2 witness: a key fetched in one window is loaded again in a later window
\* and answered from the cache; the loader has made one findMany.
C2_Witness ==
    \E s \in SetIds :
        LET ld == ls[s][resolver] IN
        /\ Len(ld.batches) = 2
        /\ ld.batches[1].state = "ok"
        /\ ld.batches[2].state = "ok"
        /\ ld.batches[2].keys = <<>>
        /\ Len(ld.batches[2].cacheHits) = 1
        /\ ld.batches[2].cacheHits[1].to[1] = 1
        /\ Len(ld.calls) = 1

\* Request r has asked loader l for key k in a window that has been dispatched.
Loaded(r, l, k) ==
    \E s \in SetIds : \E b \in DOMAIN ls[s][l].batches :
        LET batch == ls[s][l].batches[b] IN
        /\ HasDispatched(batch)
        /\ \/ \E i \in DOMAIN batch.keys : batch.keys[i] = k /\ batch.callbacks[i].by = r
           \/ \E i \in DOMAIN batch.cacheHits :
                batch.cacheHits[i].key = k /\ batch.cacheHits[i].by = r

\* The findMany calls that fetch key k of loader l for request r.
FetchesBy(r, l, k) ==
    {c \in UNION {{s} \X DOMAIN ls[s][l].calls : s \in SetIds} :
        LET batch == ls[c[1]][l].batches[ls[c[1]][l].calls[c[2]].batch] IN
        \E p \in DOMAIN batch.keys : batch.keys[p] = k /\ batch.callbacks[p].by = r}

\* Those of them that failed.
FailedFetchesBy(r, l, k) ==
    {c \in FetchesBy(r, l, k) :
        ls[c[1]][l].batches[ls[c[1]][l].calls[c[2]].batch].state = "failed"}

\* No caller is answered with a promise another request was given.
OwnPromisesOnly ==
    /\ \A r1, r2 \in Reqs : (r1 # r2 /\ ctx[r1] # 0) => ctx[r1] # ctx[r2]
    /\ \A s \in SetIds, l \in Observed :
        \A b \in DOMAIN ls[s][l].batches :
            LET batch == ls[s][l].batches[b] IN
            /\ \A i \in DOMAIN batch.callbacks : ctx[batch.callbacks[i].by] = s
            /\ \A i \in DOMAIN batch.cacheHits :
                /\ ctx[batch.cacheHits[i].by] = s
                /\ batch.cacheHits[i].by =
                     ls[s][l].batches[batch.cacheHits[i].to[1]]
                        .callbacks[batch.cacheHits[i].to[2]].by

\* C3 as claimed: every request has a loader set of its own; a load in one
\* request is never answered with a value memoized by the other, and a key
\* loaded in both requests is fetched from the gateway once per request.
C3_OncePerRequest ==
    /\ OwnPromisesOnly
    /\ \A r \in Reqs, l \in Observed, k \in Ids :
        Loaded(r, l, k) => Cardinality(FetchesBy(r, l, k)) = 1

\* C3 as amended: every request has a loader set of its own; a load in one
\* request is never answered with a value memoized by the other, and a key
\* loaded in both requests is fetched from the gateway by each request:
\* once per request, and once more in a request only after a fetch of the
\* key by that request failed.
C3_PerRequestLoaders ==
    /\ OwnPromisesOnly
    /\ \A r \in Reqs, l \in Observed, k \in Ids :
        Loaded(r, l, k) =>
            LET fetches == Cardinality(FetchesBy(r, l, k))
                failed == Cardinality(FailedFetchesBy(r, l, k))
            IN  /\ fetches >= 1
                /\ fetches <= 1 + failed

\* C3 witness: the two requests loaded the same key, each in its own loader
\* set, and each set fetched it with a findMany of its own.
C3_Witness ==
    \E k \in Ids :
        /\ ctx[1] # 0 /\ ctx[2] # 0 /\ ctx[1] # ctx[2]
        /\ Loaded(1, resolver, k) /\ Loaded(2, resolver, k)
        /\ \A r \in {1, 2} :
            /\ Len(ls[ctx[r]][resolver].calls) = 1
            /\ ls[ctx[r]][resolver].calls[1].keys = <<k>>
            /\ ls[ctx[r]][resolver].batches[1].state = "ok"
            /\ ls[ctx[r]][resolver].batches[1].callbacks[1].by = r

\* C4: when the findMany of a flush fails, every caller whose key was in the
\* flush is rejected with that failure, none gets a value, and the loader
\* makes no second findMany for the flush.
C4_FailureToAll ==
    \A s \in SetIds, l \in Observed :
        LET ld == ls[s][l] IN
        \A b \in DOMAIN ld.batches :
            ld.batches[b].state = "failed" =>
                /\ Len(ld.batches[b].callbacks) = Len(ld.batches[b].keys)
                /\ \A i \in DOMAIN ld.batches[b].callbacks :
                    /\ ld.batches[b].callbacks[i].st = "rejected"
                    /\ ld.batches[b].callbacks[i].val = DbError
                /\ Cardinality(CallsOf(ld, b)) = 1

\* C4 witness: a flush of two keys failed and both callers were rejected.
C4_Witness ==
    \E s \in SetIds :
        LET ld == ls[s][resolver] IN
        /\ Len(ld.batches) >= 1
        /\ ld.batches[1].state = "failed"
        /\ Len(ld.batches[1].keys) = 2
        /\ ld.batches[1].callbacks[1].st = "rejected"
        /\ ld.batches[1].callbacks[2].st = "rejected"
        /\ Len(ld.calls) = 1

\* C7: load calls issued after a batch was dispatched are never added to it:
\* the keys a findMany was called with stay the keys of its batch, only the
\* latest batch is open, and every dispatched batch with keys has a findMany
\* of its own, so two loads of different keys with a dispatch between them
\* make two gateway calls.
C7_NewBatchAfterDispatch ==
    \A s \in SetIds, l \in Observed :
        LET ld == ls[s][l] IN
        /\ \A i \in DOMAIN ld.calls :
            /\ ld.calls[i].batch \in DOMAIN ld.batches
            /\ ld.batches[ld.calls[i].batch].keys = ld.calls[i].keys
        /\ \A b \in DOMAIN ld.batches :
            /\ b < Len(ld.batches) => HasDispatched(ld.batches[b])
            /\ (HasDispatched(ld.batches[b]) /\ ld.batches[b].keys # <<>>)
                => Cardinality(CallsOf(ld, b)) = 1
        /\ Len(ld.calls) = Cardinality({b \in DOMAIN ld.batches :
                HasDispatched(ld.batches[b]) /\ ld.batches[b].keys # <<>>})

\* C7 witness: one key was loaded and its batch answered, then another key
\* was loaded: two batches, two findMany calls, one key each.
C7_Witness ==
    \E s \in SetIds :
        LET ld == ls[s][resolver] IN
        /\ Len(ld.batches) = 2
        /\ ld.batches[1].state = "ok"
        /\ HasDispatched(ld.batches[2])
        /\ Len(ld.calls) = 2
        /\ Len(ld.calls[1].keys) = 1 /\ Len(ld.calls[2].keys) = 1
        /\ ld.calls[1].keys # ld.calls[2].keys

(***************************************************************************)
(* Batch function claims                                                   *)
(***************************************************************************)

ScalarLoaders == {"userLoader", "employeeLoader", "employeeByUserIdLoader",
                  "subjectLoader"}

\* The column of the response a loader's key is matched against.
KeyField(kind) ==
    CASE kind \in {"userLoader", "employeeLoader", "subjectLoader"} -> "id"
      [] kind = "employeeByUserIdLoader" -> "userId"
      [] kind = "employeesBySubjectIdLoader" -> "subjectId"
      [] OTHER -> "employeeId"

\* What the database holds for key k of a loader: the values the loader
\* is to give back for it.
Belonging(kind, k) ==
    CASE kind = "userLoader" -> {u \in db.user : u.id = k}
      [] kind = "employeeLoader" -> {e \in db.employee : e.id = k}
      [] kind = "employeeByUserIdLoader" -> {e \in db.employee : e.userId = k}
      [] kind = "subjectLoader" -> {sj \in db.subject : sj.id = k}
      [] kind = "subjectsByEmployeeIdLoader" ->
            {sj \in db.subject : EmployeeSubjectRow(k, sj.id) \in db.employeeSubject}
      [] kind = "employeesBySubjectIdLoader" ->
            {e \in db.employee : EmployeeSubjectRow(e.id, k) \in db.employeeSubject}
      [] kind = "attendanceByEmployeeIdLoader" ->
            {a \in db.attendance : a.employeeId = k}

\* C5: a key with no matching row in the gateway response resolves to the
\* loader's empty result: null for user-by-id, employee-by-id,
\* employee-by-user-id and subject-by-id, an empty list (never null or
\* absent) for subjects-of-employee, employees-of-subject and
\* attendance-of-employee.
C5_EmptyResult ==
    bfOut # NotRun =>
        /\ DOMAIN bfOut = DOMAIN bfKeys
        /\ \A i \in DOMAIN bfKeys :
            (\A j \in DOMAIN bfRows : bfRows[j][KeyField(bfKind)] # bfKeys[i]) =>
                bfOut[i] = (IF bfKind \in ScalarLoaders THEN NullValue
                            ELSE ListValue(<<>>))

\* C5 witness: a list loader was given a key with rows and a key without,
\* and answered the second with the empty list.
C5_Witness ==
    /\ bfOut # NotRun
    /\ bfKind = "attendanceByEmployeeIdLoader"
    /\ Len(bfKeys) = 2
    /\ bfOut[1].kind = "list" /\ bfOut[1].list # <<>>
    /\ bfOut[2] = ListValue(<<>>)

\* C6: for every batch of keys k1..kn and every gateway response, the batch
\* function returns exactly n results, position i holding exactly the rows
\* that belong to key ki and no row of another key; the attendance rows of
\* each key are in descending date order.
C6_Demultiplexed ==
    bfOut # NotRun =>
        /\ Len(bfOut) = Len(bfKeys)
        /\ \A i \in DOMAIN bfKeys :
            LET mine == Belonging(bfKind, bfKeys[i]) IN
            IF bfKind \in ScalarLoaders
            THEN IF mine = {} THEN bfOut[i] = NullValue
                 ELSE bfOut[i].kind = "row" /\ mine = {bfOut[i].row}
            ELSE /\ bfOut[i].kind = "list"
                 /\ Range(bfOut[i].list) = mine
                 /\ Len(bfOut[i].list) = Cardinality(mine)
                 /\ bfKind = "attendanceByEmployeeIdLoader" => DateDesc(bfOut[i].list)

\* C6 witness: two keys asked in descending order, the response interleaves
\* their rows, and each position holds its own key's rows.
C6_Witness ==
    /\ bfOut # NotRun
    /\ bfKind = "attendanceByEmployeeIdLoader"
    /\ bfKeys = <<2, 1>>
    /\ Len(bfRows) = 3
    /\ bfRows[1].employeeId = 2 /\ bfRows[2].employeeId = 1 /\ bfRows[3].employeeId = 2
    /\ Len(bfOut[1].list) = 2 /\ Len(bfOut[2].list) = 1

(***************************************************************************)
(* Pagination claims                                                       *)
(***************************************************************************)

\* What the caller asked for, read from the raw arguments.
ArgSkip == Nullish(pgArgs.skip, Int2(DefaultSkip)).n \div 2
ArgTake == Nullish(pgArgs.take, Int2(DefaultTake)).n \div 2

\* C8: for all skip >= 0, take in 1..100 and totalCount >= 0, the page
\* metadata has hasNextPage = (skip + take < totalCount) and hasPreviousPage =
\* (skip > 0), at the boundary skip + take = totalCount too, and
\* buildPaginatedResponse and the employees query compute the same two flags.
C8_PageFlags ==
    /\ pgPage.set =>
        /\ pgPage.hasNextPage = (ArgSkip + ArgTake < pgTotal)
        /\ pgPage.hasPreviousPage = (ArgSkip > 0)
        /\ pgPage.totalCount = pgTotal
    /\ pgInline.set =>
        /\ pgInline.hasNextPage = (ArgSkip + ArgTake < pgTotal)
        /\ pgInline.hasPreviousPage = (ArgSkip > 0)
        /\ pgInline.totalCount = pgTotal
    /\ (pgPage.set /\ pgInline.set) =>
        /\ pgPage.hasNextPage = pgInline.hasNextPage
        /\ pgPage.hasPreviousPage = pgInline.hasPreviousPage

\* C8 witness: both computations ran on a page that ends exactly at the last
\* row (skip + take = totalCount, skip > 0) and report no next page.
C8_Witness ==
    /\ pgPage.set /\ pgInline.set
    /\ ArgSkip > 0
    /\ ArgSkip + ArgTake = pgTotal
    /\ ~pgPage.hasNextPage /\ ~pgInline.hasNextPage
    /\ pgPage.hasPreviousPage

\* C9: getPaginationOptions either fails with BAD_USER_INPUT or returns
\* skip an integer >= 0, take an integer in 1..100, sortBy in the allow-list
\* and sortOrder in {asc, desc}; take = 0, take = 101, skip = -1, a sortBy
\* outside the allow-list or a sortOrder outside {asc, desc} are rejected,
\* and take = 1 and take = 100 are accepted.
C9_OptionsValidated ==
    pgOpts # NotCalled =>
        /\ pgOpts.code \in {"OK", "BAD_USER_INPUT"}
        /\ pgOpts.code = "OK" =>
            /\ IsInt(Nullish(pgArgs.skip, Int2(DefaultSkip)))
            /\ IsInt(Nullish(pgArgs.take, Int2(DefaultTake)))
            /\ pgOpts.skip >= 0
            /\ pgOpts.take \in 1..100
            /\ pgOpts.sortBy \in {"name", "age", "class", "createdAt", "updatedAt"}
            /\ pgOpts.sortOrder \in {"asc", "desc"}
        /\ pgArgs.take \in {Int2(0), Int2(101)} => pgOpts.code = "BAD_USER_INPUT"
        /\ pgArgs.skip = Int2(-1) => pgOpts.code = "BAD_USER_INPUT"
        /\ (pgArgs.sortBy.t = "string" /\ pgArgs.sortBy.s \notin
                {"name", "age", "class", "createdAt", "updatedAt"})
            => pgOpts.code = "BAD_USER_INPUT"
        /\ (pgArgs.sortOrder.t = "string" /\ pgArgs.sortOrder.s \notin {"asc", "desc"})
            => pgOpts.code = "BAD_USER_INPUT"
        /\ pgOpts.code = "BAD_USER_INPUT" => pgOpts.fields # {}
        /\ (/\ pgArgs.take \in {Int2(1), Int2(100)}
            /\ SkipOk(Nullish(pgArgs.skip, Int2(DefaultSkip)))
            /\ (Absent(pgArgs.sortBy) \/ pgArgs.sortBy.s \in SortFields)
            /\ (Absent(pgArgs.sortOrder) \/ pgArgs.sortOrder.s \in SortOrders))
            => (pgOpts.code = "OK" /\ pgOpts.take = pgArgs.take.n \div 2)

\* C9 witness: take = 101 was rejected for the take field alone.
C9_Witness ==
    /\ pgArgs.take = Int2(101)
    /\ pgOpts.code = "BAD_USER_INPUT"
    /\ pgOpts.fields = {"take"}

\* C10: getPaginationOptions fills each absent argument with its default
\* (skip 0, take 10, sortBy createdAt, sortOrder desc) and returns every valid
\* supplied value as given; with no arguments it returns all four defaults.
C10_DefaultsFilled ==
    pgOpts # NotCalled =>
        /\ (/\ Absent(pgArgs.skip) \/ SkipOk(pgArgs.skip)
            /\ Absent(pgArgs.take) \/ TakeOk(pgArgs.take)
            /\ Absent(pgArgs.sortBy) \/ pgArgs.sortBy.s \in SortFields
            /\ Absent(pgArgs.sortOrder) \/ pgArgs.sortOrder.s \in SortOrders)
            => pgOpts.code = "OK"
        /\ pgOpts.code = "OK" =>
            /\ pgOpts.skip = (IF Absent(pgArgs.skip) THEN 0 ELSE pgArgs.skip.n \div 2)
            /\ pgOpts.take = (IF Absent(pgArgs.take) THEN 10 ELSE pgArgs.take.n \div 2)
            /\ pgOpts.sortBy =
                (IF Absent(pgArgs.sortBy) THEN "createdAt" ELSE pgArgs.sortBy.s)
            /\ pgOpts.sortOrder =
                (IF Absent(pgArgs.sortOrder) THEN "desc" ELSE pgArgs.sortOrder.s)

\* C10 witness: a call with no arguments returned the four defaults.
C10_Witness ==
    /\ pgArgs = [skip |-> Undefined, take |-> Undefined, sortBy |-> Undefined,
                 sortOrder |-> Undefined]
    /\ pgOpts = [code |-> "OK", skip |-> 0, take |-> 10, sortBy |-> "createdAt",
                 sortOrder |-> "desc", fields |-> {}]

(***************************************************************************)
(* Service claims                                                          *)
(***************************************************************************)

AdminQueries == {"employees", "subjects", "subject", "usersWithoutEmployees"}
AdminMutations ==
    {"createEmployee", "updateEmployee", "deleteEmployee", "createSubject",
     "deleteSubject", "markAttendance"}
AdminOps == AdminQueries \cup AdminMutations
VerifiedOnlyOps == {"employee", "attendanceByEmployee", "myProfile", "updateMyName"} \cup AdminOps

\* The caller of the latest call has a token, and their account is (not) verified.
CallerVerified ==
    \E u \in db.user : u.id = lastCall.user.id /\ u.otpVerified
CallerUnverified ==
    \E u \in db.user : u.id = lastCall.user.id /\ ~u.otpVerified

\* C11: an Admin-only operation called with no identity fails with
\* UNAUTHENTICATED, called by an unverified identity of any role it fails with
\* OTP_REQUIRED, and it fails with FORBIDDEN exactly when the identity is
\* verified and its role is not ADMIN.
C11_GateOrder ==
    lastCall.op \in AdminOps =>
        /\ lastCall.user = NoUser => lastCall.code = "UNAUTHENTICATED"
        /\ CallerUnverified => lastCall.code = "OTP_REQUIRED"
        /\ lastCall.code = "FORBIDDEN" <=> (CallerVerified /\ lastCall.user.role # "ADMIN")

\* C11 witness: an unverified user of role EMPLOYEE called an Admin mutation
\* and was told OTP_REQUIRED.
C11_Witness ==
    /\ lastCall.op = "createSubject"
    /\ lastCall.user.role = "EMPLOYEE"
    /\ CallerUnverified
    /\ lastCall.code = "OTP_REQUIRED"

\* C12: a verified-only operation called by an authenticated, unverified
\* identity fails with OTP_REQUIRED carrying the user's email and writes the
\* user's OTP and expiry exactly once (and nothing else), whether the mail
\* was sent or failed.
C12_UnverifiedGetsNewOtp ==
    (lastCall.op \in VerifiedOnlyOps /\ CallerUnverified) =>
        /\ lastCall.code = "OTP_REQUIRED"
        /\ lastCall.writes = <<"user.update">>
        /\ lastCall.mail \in {"sent", "failed"}
        /\ \E u \in db.user :
            /\ u.id = lastCall.user.id
            /\ lastCall.email = u.email
            /\ u.otp \in OtpCodes
            /\ u.otpExpires = getOTPExpiry(now)

\* C12 witness: the mail failed and the call still answered OTP_REQUIRED
\* after storing the new OTP.
C12_Witness ==
    /\ lastCall.op = "myProfile"
    /\ CallerUnverified
    /\ lastCall.mail = "failed"
    /\ lastCall.code = "OTP_REQUIRED"
    /\ lastCall.writes = <<"user.update">>

\* C13: employee(id) called by a verified non-admin who does not own an
\* Employee of that id fails with FORBIDDEN, whether or not an Employee of
\* that id exists.
C13_ForbiddenWhetherOrNotExists ==
    (/\ lastCall.op = "employee"
     /\ CallerVerified
     /\ lastCall.user.role # "ADMIN"
     /\ validateId(lastCall.key)
     /\ ~\E e \in db.employee : e.id = lastCall.key /\ e.userId = lastCall.user.id)
        => lastCall.code = "FORBIDDEN"

\* The user who owns the Employee a returned row belongs to.
OwnerOf(row) ==
    IF "employeeId" \in DOMAIN row
    THEN {e.userId : e \in {x \in db.employee : x.id = row.employeeId}}
    ELSE {row.userId}

C15_FailureLeavesRows ==
    [][(/\ lastCall'.op \in AdminMutations
        /\ lastCall'.code \in {"UNAUTHENTICATED", "FORBIDDEN", "BAD_USER_INPUT"})
        => /\ db'.employee = db.employee
           /\ db'.subject = db.subject
           /\ db'.employeeSubject = db.employeeSubject
           /\ db'.attendance = db.attendance]_vars

\* C15 witness: updateEmployee of an employee that has a subject link was
\* refused for its subject ids, and the link is still there.
C15_Witness ==
    /\ lastCall.op = "updateEmployee"
    /\ lastCall.code = "BAD_USER_INPUT"
    /\ lastCall.msg = "Invalid subject IDs"
    /\ \E l \in db.employeeSubject : l.employeeId = lastCall.key

\* C18: when sendOTPEmail fails, register of a new email still returns
\* success (the User row exists), and sendOTP and resendOTP for an unverified
\* user still return success after storing the new OTP.
C18_MailFailureSwallowed ==
    /\ (/\ lastCall.op = "register"
        /\ lastCall.writes = <<"user.create">>
        /\ lastCall.mail = "failed")
        => lastCall.code = "OK"
    /\ (/\ lastCall.op \in {"sendOTP", "resendOTP"}
        /\ lastCall.writes = <<"user.update">>
        /\ lastCall.mail = "failed")
        => lastCall.code = "OK"

\* C16: a successful markAttendance for an employee and a date value that
\* already had a row with the other status (left by an earlier call) leaves
\* exactly one row for that employee and date, with the status of the later
\* call.
C16_LaterStatusWins ==
    (lastCall.op = "markAttendance" /\ lastCall.code = "OK") =>
        \A m \in lastCall.data :
            (\E b \in lastCall.before.attendance :
                b.employeeId = m.employeeId /\ b.date = m.date /\ b.status # m.status)
            => {a \in db.attendance : a.employeeId = m.employeeId /\ a.date = m.date} = {m}

\* C16 witness: the second of two calls marked an employee absent on a date
\* the first had marked present, and one row, absent, is left.
C16_Witness ==
    /\ nCalls = 2
    /\ lastCall.op = "markAttendance"
    /\ lastCall.code = "OK"
    /\ \E m \in lastCall.data :
        /\ m.status = FALSE
        /\ Mark(m.employeeId, m.date, TRUE) \in lastCall.before.attendance
        /\ {a \in db.attendance : a.employeeId = m.employeeId /\ a.date = m.date} = {m}

\* C17: after any sequence of markAttendance calls an employee has at most
\* one Attendance row per calendar day, whatever the times of day the date
\* strings name.
C17_OneRowPerDay ==
    \A a, b \in db.attendance :
        (a.employeeId = b.employeeId /\ CalendarDay(a.date) = CalendarDay(b.date)) => a = b

\* C19: a request that runs into a uniqueness conflict ends with
\* BAD_USER_INPUT and an 'already exists' message, never with an internal
\* error, also when another request with the same key wrote between its
\* existence check and its write.
C19_ConflictIsBadUserInput ==
    \A p \in Reqs :
        procs[p].pc = "done" => procs[p].code # "INTERNAL_SERVER_ERROR"

\* C20: after any interleaving of register calls no two User rows have
\* emails that are equal once folded to lower case and trimmed.
C20_OneUserPerFoldedEmail ==
    \A u, v \in db.user :
        toLowerCaseTrim(u.email) = toLowerCaseTrim(v.email) => u = v

\* C20 witness: two register calls for one mailbox, typed once in lower case
\* and once with capitals, both ended, and the mailbox has one User row.
C20_Witness ==
    \E p, q \in Reqs :
        /\ procs[p].op = "register" /\ procs[q].op = "register"
        /\ procs[p].pc = "done" /\ procs[q].pc = "done"
        /\ procs[p].arg = Email("c", FALSE, FALSE)
        /\ procs[q].arg = Email("c", TRUE, FALSE)
        /\ Cardinality({u \in db.user : toLowerCaseTrim(u.email).name = "c"}) = 1

\* The Employee rows the caller of the latest call owned before it.
OwnBefore == {e \in lastCall.before.employee : e.userId = lastCall.user.id}

\* C22: updateMyName by a verified caller with a valid name: without a
\* profile it creates one row, owned by the caller and with that name, when
\* the role is ADMIN, and for role EMPLOYEE fails with NOT_FOUND and creates
\* none; with a profile it changes the name of the caller's own row and no
\* other Employee row.
C22_OwnProfileOnly ==
    (lastCall.op = "updateMyName" /\ CallerVerified /\ IsName(lastCall.key)) =>
        /\ (OwnBefore = {} /\ lastCall.user.role = "ADMIN") =>
            /\ lastCall.code = "OK"
            /\ \E e \in db.employee :
                /\ e.userId = lastCall.user.id /\ e.name = lastCall.key
                /\ e \notin lastCall.before.employee
                /\ db.employee = lastCall.before.employee \cup {e}
        /\ (OwnBefore = {} /\ lastCall.user.role # "ADMIN") =>
            /\ lastCall.code = "NOT_FOUND"
            /\ db.employee = lastCall.before.employee
        /\ OwnBefore # {} =>
            /\ lastCall.code = "OK"
            /\ db.employee = (lastCall.before.employee \ OwnBefore)
                                \cup {[e EXCEPT !.name = lastCall.key] : e \in OwnBefore}

\* C22 witness: a verified employee without a profile asked for a name and
\* got NOT_FOUND, while another user's profile exists and is unchanged.
C22_Witness ==
    /\ lastCall.op = "updateMyName"
    /\ CallerVerified
    /\ lastCall.user.role = "EMPLOYEE"
    /\ IsName(lastCall.key)
    /\ OwnBefore = {}
    /\ lastCall.code = "NOT_FOUND"
    /\ db.employee = lastCall.before.employee
    /\ db.employee # {}

\* C23: every EmployeeSubject row and every Attendance row references an
\* existing Employee, every EmployeeSubject row an existing Subject; a
\* successful deleteEmployee removes exactly the employee with its links and
\* marks, a successful deleteSubject exactly the subject with its links, and
\* leaves every Employee and Attendance row.
C23_CascadeKeepsReferences ==
    /\ ForeignKeys(db)
    /\ (lastCall.op = "deleteEmployee" /\ lastCall.code = "OK") =>
        /\ db.employee = {e \in lastCall.before.employee : e.id # lastCall.key}
        /\ db.employeeSubject =
            {l \in lastCall.before.employeeSubject : l.employeeId # lastCall.key}
        /\ db.attendance = {a \in lastCall.before.attendance : a.employeeId # lastCall.key}
        /\ db.subject = lastCall.before.subject
    /\ (lastCall.op = "deleteSubject" /\ lastCall.code = "OK") =>
        /\ db.subject = {sj \in lastCall.before.subject : sj.id # lastCall.key}
        /\ db.employeeSubject =
            {l \in lastCall.before.employeeSubject : l.subjectId # lastCall.key}
        /\ db.employee = lastCall.before.employee
        /\ db.attendance = lastCall.before.attendance

\* C23 witness: an employee that had a subject link and a mark was deleted.
C23_Witness ==
    /\ lastCall.op = "deleteEmployee"
    /\ lastCall.code = "OK"
    /\ \E l \in lastCall.before.employeeSubject : l.employeeId = lastCall.key
    /\ \E a \in lastCall.before.attendance : a.employeeId = lastCall.key
    /\ db.employeeSubject = {}
    /\ db.attendance = {}

\* The subject ids an employee is linked to in a database.
SubjectsOf(database, id) ==
    {l.subjectId : l \in {k \in database.employeeSubject : k.employeeId = id}}

\* C30: after an updateEmployee call of an existing employee with a
\* non-empty subjectIds list, whether it succeeded or failed, the employee's
\* links are exactly the ones it had before the call or exactly the ones the
\* list names, never none and never a mixture.
C30_LinksOldOrNew ==
    (/\ lastCall.op = "updateEmployee"
     /\ lastCall.args.subjectIds # <<>>
     /\ \E e \in lastCall.before.employee : e.id = lastCall.key)
        => \/ SubjectsOf(db, lastCall.key) = SubjectsOf(lastCall.before, lastCall.key)
           \/ SubjectsOf(db, lastCall.key) = Range(lastCall.args.subjectIds)

\* The filter text occurs in the field when letter case is disregarded.
OccursIgnoringCase(text, field) ==
    \E before, after \in 0..Len(field) :
        /\ before + Len(text) + after = Len(field)
        /\ \A i \in 1..Len(text) :
            toLowerCase(<<field[before + i]>>) = toLowerCase(<<text[i]>>)

\* C24: an absent filter field adds no constraint, and each text field of
\* the filter (name and class) selects exactly the employees whose field
\* contains the filter text as a substring, letter case disregarded.
C24_TextFiltersAreSubstring ==
    flOut # NotFiltered =>
        flOut = {e \in flRows :
                    /\ flFilter.name.given => OccursIgnoringCase(flFilter.name.value, e.name)
                    /\ flFilter.class.given => OccursIgnoringCase(flFilter.class.value, e.class)
                    /\ flFilter.age.given => e.age = flFilter.age.value
                    /\ flFilter.isActive.given => e.isActive = flFilter.isActive.value}

(***************************************************************************)
(* Claims about the OTP life cycle                                         *)
(***************************************************************************)

\* The accounts the email of the last call named, as they were before it.
Named == {u \in lastCall.before.user : u.email = toLowerCaseTrim(lastCall.args.email)}

\* The row of an account now.
RowNow(u) == CHOOSE v \in db.user : v.id = u.id

\* The stored code of an account was good for the last call.
CodeGood(u) ==
    /\ u.otp # NoOtp
    /\ u.otpExpires # NoExpiry
    /\ lastCall.args.otp = u.otp
    /\ lastCall.at < u.otpExpires

\* C21: verifyOTP for an unverified user with the stored, unexpired code sets
\* otpVerified, clears otp and otpExpires in one update and returns a token;
\* in every other outcome for an unverified user otpVerified stays false.
C21_VerifyFlipsAndClears ==
    lastCall.op = "verifyOTP" =>
        \A u \in Named : ~u.otpVerified =>
            IF CodeGood(u)
            THEN /\ RowNow(u) = [u EXCEPT !.otpVerified = TRUE, !.otp = NoOtp,
                                          !.otpExpires = NoExpiry]
                 /\ lastCall.writes = <<"user.update">>
                 /\ lastCall.code = "OK"
                 /\ lastCall.token = sign(u.id, u.role)
            ELSE /\ ~RowNow(u).otpVerified
                 /\ lastCall.token = NoToken

C21_Witness ==
    /\ lastCall.op = "verifyOTP"
    /\ \E u \in Named : ~u.otpVerified /\ CodeGood(u) /\ RowNow(u).otpVerified

\* C25: verifyOTP returns a token only when the submitted code equals the
\* stored code of the account and that code has not expired; a call with a
\* code never issued for the account returns no token, verified or not.
C25_TokenOnlyForStoredCode ==
    lastCall.op = "verifyOTP" =>
        /\ lastCall.token # NoToken => \E u \in Named : CodeGood(u)
        /\ (\A i \in issued : i.otp # lastCall.args.otp) => lastCall.token = NoToken

\* C26: a verified user holds no code and no expiry, and a verified user
\* stays verified under every call.
C26_VerifiedHoldsNoOtp ==
    /\ [](\A u \in db.user : u.otpVerified => u.otp = NoOtp /\ u.otpExpires = NoExpiry)
    /\ [][\A u \in db.user : u.otpVerified => \E v \in db'.user : v = u]_vars

C26_Witness ==
    /\ lastCall.op \in {"register", "login", "sendOTP", "resendOTP", "me", "myProfile"}
    /\ \E u \in lastCall.before.user :
        /\ u.otpVerified
        /\ u \in db.user
        /\ \E i \in issued : i.email = u.email
        /\ \/ u \in Named
           \/ lastCall.user = UserPayload(u.id, u.role)

\* C27: login returns a token exactly when the email is a user's, the
\* password matches and the user is verified; register returns no token; an
\* unverified user with the right password gets token null, success false,
\* requiresOTPVerification true and a fresh code stored.
C27_LoginTokenIffVerified ==
    /\ lastCall.op = "register" => lastCall.token = NoToken
    /\ lastCall.op = "login" =>
        /\ lastCall.token # NoToken <=>
                \E u \in Named : u.passwordHash = hash(lastCall.args.password) /\ u.otpVerified
        /\ \A u \in Named :
            (u.passwordHash = hash(lastCall.args.password) /\ ~u.otpVerified) =>
                /\ lastCall.code = "OK"
                /\ lastCall.token = NoToken
                /\ ~lastCall.success
                /\ lastCall.requiresOTPVerification
                /\ RowNow(u) = [u EXCEPT !.otp = lastCall.args.generated,
                                         !.otpExpires = lastCall.at + OtpTtlMinutes]

C27_Witness ==
    /\ lastCall.op = "login"
    /\ \E u \in Named : u.otpVerified /\ lastCall.token = sign(u.id, u.role)

\* The unverified accounts for which the last call generated a code.
Regenerated ==
    CASE lastCall.op \in {"register", "sendOTP", "resendOTP"} ->
            {u \in Named : ~u.otpVerified}
      [] lastCall.op = "login" ->
            {u \in Named : ~u.otpVerified /\ u.passwordHash = hash(lastCall.args.password)}
      [] lastCall.op \in {"me", "myProfile"} ->
            {u \in lastCall.before.user : u.id = lastCall.user.id /\ ~u.otpVerified}
      [] OTHER -> {}

\* C28: every regeneration for an unverified user overwrites the stored code
\* and expiry, and verifyOTP rejects with INVALID_OTP a code issued earlier
\* for the account that differs from the stored one, even when the earlier
\* code has not reached its own expiry.
C28_OnlyLatestCodeAccepted ==
    /\ \A u \in Regenerated :
        RowNow(u) = [u EXCEPT !.otp = lastCall.args.generated,
                              !.otpExpires = lastCall.at + OtpTtlMinutes]
    /\ lastCall.op = "verifyOTP" =>
        \A u \in Named :
            (/\ ~u.otpVerified
             /\ lastCall.args.otp # u.otp
             /\ \E i \in issued : /\ i.email = u.email
                                  /\ i.otp = lastCall.args.otp
                                  /\ lastCall.at < i.otpExpires)
                => lastCall.code = "INVALID_OTP" /\ RowNow(u) = u

C28_Witness ==
    /\ lastCall.op = "verifyOTP"
    /\ lastCall.code = "INVALID_OTP"
    /\ \E u \in Named :
        /\ ~u.otpVerified
        /\ \E i \in issued : /\ i.email = u.email
                             /\ i.otp = lastCall.args.otp
                             /\ i.otp # u.otp
                             /\ lastCall.at < i.otpExpires

\* C29: a failing verifyOTP leaves every User row as it was, and it fails
\* in a fixed order: unknown email BAD_USER_INPUT, no stored code
\* BAD_USER_INPUT, an expired stored code OTP_EXPIRED even when the
\* submitted code equals it, an unexpired other code INVALID_OTP.
C29_FailureOrder ==
    lastCall.op = "verifyOTP" =>
        /\ lastCall.code # "OK" => db = lastCall.before
        /\ Named = {} => lastCall.code = "BAD_USER_INPUT"
        /\ \A u \in Named : ~u.otpVerified =>
            lastCall.code =
                IF u.otp = NoOtp \/ u.otpExpires = NoExpiry THEN "BAD_USER_INPUT"
                ELSE IF lastCall.at >= u.otpExpires THEN "OTP_EXPIRED"
                ELSE IF lastCall.args.otp # u.otp THEN "INVALID_OTP"
                ELSE "OK"

C29_Witness ==
    /\ lastCall.op = "verifyOTP"
    /\ lastCall.code = "OTP_EXPIRED"
    /\ db = lastCall.before
    /\ \E u \in Named : u.otp = lastCall.args.otp

====
